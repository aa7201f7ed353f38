------------------------------- MODULE Requests -------------------------------
(***************************************************************************)
(* The requests clients send and the responses they get, as far as the     *)
(* handlers tell them apart (src/src/api_spec.cpp and src/src/handlers).   *)
(* op is the HandlerId a request is routed to; user is its X-User-ID, or   *)
(* the user_id a POST /internal/profiles names.                            *)
(***************************************************************************)
EXTENDS Repository

\* PATCH /me names any of the columns, PUT /me/privacy any of the fields.
Patches       == UNION {[F -> Texts] : F \in SUBSET PatchColumns}
SettingsAsked == UNION {[F -> Visibilities] : F \in SUBSET PrivacyFields}

Reads ==
  [op : {"GetMyProfile", "GetPrivacy", "GetContacts", "GetFavorites", "GetNotifications"},
   user : Users]
  \cup [op : {"GetProfileByID"}, user : Users, target : Users]
  \cup [op : {"GetChatNotifications"}, user : Users, chat : ChatIds]

Writes ==
  [op : {"DeleteAvatar"}, user : Users]
  \cup [op : {"DeleteContact"}, user : Users, contact : Users]
  \cup [op : {"AddFavorite", "RemoveFavorite"}, user : Users, chat : ChatIds]
  \cup [op : {"CreateProfile"}, user : Users, body : {"ok"}]
  \cup [op : {"UpdateProfile"}, user : Users, body : {"ok"}, patch : Patches]
  \cup [op : {"UploadAvatar"}, user : Users, body : {"ok"}, url : Urls]
  \cup [op : {"UpdatePrivacy"}, user : Users, body : {"ok"}, settings : SettingsAsked]
  \cup [op : {"AddContact"}, user : Users, body : {"ok"}, contact : Users, alias : Texts \cup {Null}]
  \cup [op : {"UpdateNotifications"}, user : Users, body : {"ok"}, mute : Mutes]
  \cup [op : {"UpdateChatNotifications"}, user : Users, body : {"ok"}, chat : ChatIds, mute : Mutes]

(***************************************************************************)
(* Bodies no handler can use: "malformed" when parsing the body, or a      *)
(* field the handler reads first, throws; "incomplete" when the field it   *)
(* requires is missing or empty; "illtyped" when a field PATCH /me reads   *)
(* after its SELECT throws.                                                *)
(***************************************************************************)
BadRequests ==
  [op : {"CreateProfile", "UploadAvatar", "AddContact"}, user : Users,
   body : {"malformed", "incomplete"}]
  \cup [op : {"UpdateProfile"}, user : Users, body : {"malformed", "illtyped"}]
  \cup [op : {"UpdatePrivacy", "UpdateNotifications", "UpdateChatNotifications"},
        user : Users, body : {"malformed"}]

HttpRequests == Reads \cup Writes \cup BadRequests

\* The fields of privacy_settings a PUT asks for: one its body does not name is
\* set to "everyone", not left alone.
SettingsOf(asked) ==
  [f \in PrivacyFields |-> IF f \in DOMAIN asked THEN asked[f] ELSE "everyone"]

(***************************************************************************)
(* Responses: the status, and the content of those to the GETs and to PATCH*)
(***************************************************************************)
Failures  == {400, 404, 409, 500}
Successes == {200, 201, 204}

Answer(status) == [status |-> status]

ProfileAnswer(profile) == [status |-> 200, profile |-> profile]
MuteAnswer(mute)       == [status |-> 200, mute |-> mute]

HttpResponses ==
  [status : Failures \cup Successes]
  \cup [status : {200}, profile : [Columns -> Values]]
  \cup [status : {200}, contacts : SUBSET (Users \X Texts)]
  \cup [status : {200}, favorites : SUBSET StorableChats]
  \cup [status : {200}, privacy : Settings]
  \cup [status : {200}, mute : Mutes]

Succeeded(answer) == answer # None /\ answer.status \in Successes

ASSUME RequestsAssumption == None \notin HttpRequests /\ None \notin HttpResponses
===============================================================================
