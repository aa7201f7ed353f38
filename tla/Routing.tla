------------------------------- MODULE Routing -------------------------------
(***************************************************************************)
(* How a request finds its operation (src/src/api_spec.cpp,                *)
(* request_manager.cpp, handlers/handler_factory.cpp and the Handle of     *)
(* each handler).  The target is matched three times: against the route    *)
(* table, again for its parameter, and again by the handler bound to it.   *)
(*                                                                         *)
(* A target is its sequence of tokens, a slash or what stands between two  *)
(* slashes: /me/avatar is <<"/", "me", "/", "avatar">>.  Two names are     *)
(* never adjacent, so a string prefix that ends with a slash is a prefix   *)
(* of the tokens.  A query belongs to its token: "me?x" is not "me".       *)
(***************************************************************************)
EXTENDS Integers, Sequences, SequencesExt

Methods == {"GET", "HEAD", "POST", "PUT", "PATCH", "DELETE", "OPTIONS"}

InternalProfiles == <<"/", "internal", "/", "profiles">>
Me               == <<"/", "me">>
MyAvatar         == <<"/", "me", "/", "avatar">>
MyPrivacy        == <<"/", "me", "/", "privacy">>
UserById         == <<"/", "{user_id}">>
Contacts         == <<"/", "contacts">>
ContactById      == <<"/", "contacts", "/", "{contact_id}">>
Favorites        == <<"/", "favorites">>
FavoriteById     == <<"/", "favorites", "/", "{chat_id}">>
Notifications    == <<"/", "notifications">>
NotificationById == <<"/", "notifications", "/", "{chat_id}">>

Slash              == <<"/">>
UnderContacts      == <<"/", "contacts", "/">>
UnderFavorites     == <<"/", "favorites", "/">>
UnderNotifications == <<"/", "notifications", "/">>

(***************************************************************************)
(* The route table: each HandlerId is added for one path and method.  The  *)
(* scopes are left out, SimpleAuthChecker does not look at them.           *)
(***************************************************************************)
Route(method, path) == [method |-> method, path |-> path]

Routes ==
  [CreateProfile           |-> Route("POST",   InternalProfiles),
   GetMyProfile            |-> Route("GET",    Me),
   UpdateProfile           |-> Route("PATCH",  Me),
   GetProfileByID          |-> Route("GET",    UserById),
   UploadAvatar            |-> Route("POST",   MyAvatar),
   DeleteAvatar            |-> Route("DELETE", MyAvatar),
   GetPrivacy              |-> Route("GET",    MyPrivacy),
   UpdatePrivacy           |-> Route("PUT",    MyPrivacy),
   GetContacts             |-> Route("GET",    Contacts),
   AddContact              |-> Route("POST",   Contacts),
   DeleteContact           |-> Route("DELETE", ContactById),
   GetFavorites            |-> Route("GET",    Favorites),
   AddFavorite             |-> Route("POST",   FavoriteById),
   RemoveFavorite          |-> Route("DELETE", FavoriteById),
   GetNotifications        |-> Route("GET",    Notifications),
   GetChatNotifications    |-> Route("GET",    NotificationById),
   UpdateNotifications     |-> Route("PUT",    Notifications),
   UpdateChatNotifications |-> Route("PUT",    NotificationById)]

HandlerIds == DOMAIN Routes

\* findExact: the handler of a path and method, if there is one.
FindExact(path, method) == {id \in HandlerIds : Routes[id] = Route(method, path)}

OneSegment(target) ==
  IsPrefix(Slash, target) /\ \A i \in 2..Len(target) : target[i] # "/"

\* Mutant of ResolveRoute: the single segment looked at before the table.
ResolveRoute_SegmentFirst(target, method) ==
  IF OneSegment(target) /\ target # Me THEN FindExact(UserById, method)
  ELSE IF FindExact(target, method) # {} THEN FindExact(target, method)
  ELSE IF IsPrefix(UnderContacts, target) THEN FindExact(ContactById, method)
  ELSE IF IsPrefix(UnderFavorites, target) THEN FindExact(FavoriteById, method)
  ELSE IF IsPrefix(UnderNotifications, target) THEN FindExact(NotificationById, method)
  ELSE {}

\* The handlers a target and method resolve to: one or none.  The targets
\* /me/avatar and /me/privacy, which the code excludes too, are no single segment.
ResolveRoute(target, method) ==
  IF FindExact(target, method) # {} THEN FindExact(target, method)
  ELSE IF IsPrefix(UnderContacts, target) THEN FindExact(ContactById, method)
  ELSE IF IsPrefix(UnderFavorites, target) THEN FindExact(FavoriteById, method)
  ELSE IF IsPrefix(UnderNotifications, target) THEN FindExact(NotificationById, method)
  ELSE IF OneSegment(target) /\ target # Me THEN FindExact(UserById, method)
  ELSE {}

(***************************************************************************)
(* RouteContext::PathParams: the parameter by its name, the rest of the    *)
(* target after a prefix whatever it holds, the empty rest included.       *)
(***************************************************************************)
After(prefix, target) == SubSeq(target, Len(prefix) + 1, Len(target))

Param(name, value) == [n \in {name} |-> value]

NoParams == [n \in {} |-> <<>>]

\* Mutant of ExtractPathParams: a rest that leaves its first token out.
ExtractPathParams_TooFar(target) ==
  IF IsPrefix(UnderContacts, target)
    THEN Param("contact_id", After(ContactById, target))
  ELSE IF IsPrefix(UnderFavorites, target)
    THEN Param("chat_id", After(UnderFavorites, target))
  ELSE IF IsPrefix(UnderNotifications, target)
    THEN Param("chat_id", After(UnderNotifications, target))
  ELSE IF target # Me /\ IsPrefix(Slash, target) /\ Len(target) > 1
    THEN Param("user_id", After(Slash, target))
  ELSE NoParams

ExtractPathParams(target) ==
  IF IsPrefix(UnderContacts, target)
    THEN Param("contact_id", After(UnderContacts, target))
  ELSE IF IsPrefix(UnderFavorites, target)
    THEN Param("chat_id", After(UnderFavorites, target))
  ELSE IF IsPrefix(UnderNotifications, target)
    THEN Param("chat_id", After(UnderNotifications, target))
  ELSE IF target # Me /\ IsPrefix(Slash, target) /\ Len(target) > 1
    THEN Param("user_id", After(Slash, target))
  ELSE NoParams

(***************************************************************************)
(* The handlers, and what each makes of the target and method it is given  *)
(***************************************************************************)
ProfileIds == {"CreateProfile", "GetMyProfile", "UpdateProfile", "GetProfileByID",
               "UploadAvatar", "DeleteAvatar"}
ContactsIds      == {"GetContacts", "AddContact", "DeleteContact"}
PrivacyIds       == {"GetPrivacy", "UpdatePrivacy"}
FavoritesIds     == {"GetFavorites", "AddFavorite", "RemoveFavorite"}
NotificationsIds == {"GetNotifications", "GetChatNotifications",
                     "UpdateNotifications", "UpdateChatNotifications"}

\* HandlerFactory::Bind: the operations of the handler registered for id.
Bind(id) ==
  UNION {handler \in {ProfileIds, ContactsIds, PrivacyIds, FavoritesIds, NotificationsIds} :
           id \in handler}

ProfileHandle(target, method) ==
  {id \in ProfileIds :
     \/ id = "CreateProfile" /\ method = "POST" /\ target = InternalProfiles
     \/ id = "GetMyProfile" /\ method = "GET" /\ target = Me
     \/ id = "UpdateProfile" /\ method = "PATCH" /\ target = Me
     \/ id = "GetProfileByID" /\ method = "GET" /\ IsPrefix(Slash, target) /\ target # Me
     \/ id = "UploadAvatar" /\ method = "POST" /\ target = MyAvatar
     \/ id = "DeleteAvatar" /\ method = "DELETE" /\ target = MyAvatar}

ContactsHandle(target, method) ==
  {id \in ContactsIds :
     \/ id = "GetContacts" /\ method = "GET" /\ target = Contacts
     \/ id = "AddContact" /\ method = "POST" /\ target = Contacts
     \/ id = "DeleteContact" /\ method = "DELETE" /\ IsPrefix(UnderContacts, target)}

PrivacyHandle(target, method) ==
  {id \in PrivacyIds :
     \/ id = "GetPrivacy" /\ method = "GET" /\ target = MyPrivacy
     \/ id = "UpdatePrivacy" /\ method = "PUT" /\ target = MyPrivacy}

FavoritesHandle(target, method) ==
  {id \in FavoritesIds :
     \/ id = "GetFavorites" /\ method = "GET" /\ target = Favorites
     \/ id = "AddFavorite" /\ method = "POST" /\ IsPrefix(UnderFavorites, target)
     \/ id = "RemoveFavorite" /\ method = "DELETE" /\ IsPrefix(UnderFavorites, target)}

\* Mutant of NotificationsHandle: a prefix without its second slash, before the
\* exact path.
NotificationsHandle_ShortPrefix(target, method) ==
  {id \in NotificationsIds :
     \/ id = "GetChatNotifications" /\ method = "GET" /\ IsPrefix(Notifications, target)
     \/ id = "UpdateChatNotifications" /\ method = "PUT" /\ IsPrefix(Notifications, target)}

NotificationsHandle(target, method) ==
  {id \in NotificationsIds :
     \/ id = "GetNotifications" /\ method = "GET" /\ target = Notifications
     \/ id = "GetChatNotifications" /\ method = "GET" /\ IsPrefix(UnderNotifications, target)
     \/ id = "UpdateNotifications" /\ method = "PUT" /\ target = Notifications
     \/ id = "UpdateChatNotifications" /\ method = "PUT" /\ IsPrefix(UnderNotifications, target)}

\* The operation the handler bound for id runs, if it knows one.
Dispatch(id, target, method) ==
  Bind(id) \cap (ProfileHandle(target, method) \cup ContactsHandle(target, method)
                 \cup PrivacyHandle(target, method) \cup FavoritesHandle(target, method)
                 \cup NotificationsHandle(target, method))

\* The parameter an operation looks for.
ParamOf(id) ==
  IF id = "GetProfileByID" THEN {"user_id"}
  ELSE IF id = "DeleteContact" THEN {"contact_id"}
  ELSE IF id \in {"AddFavorite", "RemoveFavorite",
                  "GetChatNotifications", "UpdateChatNotifications"} THEN {"chat_id"}
  ELSE {}
===============================================================================
