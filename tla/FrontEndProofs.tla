--------------------------- MODULE FrontEndProofs ---------------------------
(***************************************************************************)
(* Theorems about FrontEnd: types, and the agreement of the three          *)
(* matchings of a target, for any targets and any bodies.                  *)
(***************************************************************************)
EXTENDS FrontEnd, SequenceTheorems, TLAPS

LEMMA RoutesAre ==
  /\ HandlerIds = ProfileIds \cup ContactsIds \cup PrivacyIds \cup FavoritesIds
                  \cup NotificationsIds
  /\ Routes["CreateProfile"] = Route("POST", InternalProfiles)
  /\ Routes["GetMyProfile"] = Route("GET", Me)
  /\ Routes["UpdateProfile"] = Route("PATCH", Me)
  /\ Routes["GetProfileByID"] = Route("GET", UserById)
  /\ Routes["UploadAvatar"] = Route("POST", MyAvatar)
  /\ Routes["DeleteAvatar"] = Route("DELETE", MyAvatar)
  /\ Routes["GetPrivacy"] = Route("GET", MyPrivacy)
  /\ Routes["UpdatePrivacy"] = Route("PUT", MyPrivacy)
  /\ Routes["GetContacts"] = Route("GET", Contacts)
  /\ Routes["AddContact"] = Route("POST", Contacts)
  /\ Routes["DeleteContact"] = Route("DELETE", ContactById)
  /\ Routes["GetFavorites"] = Route("GET", Favorites)
  /\ Routes["AddFavorite"] = Route("POST", FavoriteById)
  /\ Routes["RemoveFavorite"] = Route("DELETE", FavoriteById)
  /\ Routes["GetNotifications"] = Route("GET", Notifications)
  /\ Routes["GetChatNotifications"] = Route("GET", NotificationById)
  /\ Routes["UpdateNotifications"] = Route("PUT", Notifications)
  /\ Routes["UpdateChatNotifications"] = Route("PUT", NotificationById)
  BY DEF HandlerIds, Routes, ProfileIds, ContactsIds, PrivacyIds, FavoritesIds,
         NotificationsIds

\* What the comparisons below need of the paths.
LEMMA PathsDiffer ==
  /\ IsPrefix(Slash, UserById) /\ UserById # Me
  /\ IsPrefix(UnderContacts, ContactById)
  /\ IsPrefix(UnderFavorites, FavoriteById)
  /\ IsPrefix(UnderNotifications, NotificationById)
  /\ ~IsPrefix(UnderNotifications, Notifications)
  /\ InternalProfiles # MyAvatar
  BY DEF IsPrefix, InternalProfiles, Me, MyAvatar, Notifications, UserById, ContactById,
         FavoriteById, NotificationById, Slash, UnderContacts, UnderFavorites,
         UnderNotifications

\* The path of a route is the target, or the one that its prefix stands for.
PathMeets(path, target) ==
  \/ target = path
  \/ path = ContactById /\ IsPrefix(UnderContacts, target)
  \/ path = FavoriteById /\ IsPrefix(UnderFavorites, target)
  \/ path = NotificationById /\ IsPrefix(UnderNotifications, target)
  \/ path = UserById /\ OneSegment(target) /\ target # Me

LEMMA Found ==
  ASSUME NEW path, NEW method, NEW id \in FindExact(path, method)
  PROVE  id \in HandlerIds /\ Routes[id] = Route(method, path)
         /\ Routes[id].method = method /\ Routes[id].path = path
  BY DEF FindExact, Route

\* A resolved route has the method of the request and a path that meets its target.
LEMMA ResolvedMeets ==
  ASSUME NEW target, NEW method, NEW id \in ResolveRoute(target, method)
  PROVE  \E path : /\ id \in HandlerIds /\ Routes[id] = Route(method, path)
                   /\ PathMeets(path, target)
  <1>1. CASE id \in FindExact(target, method)
        BY <1>1, Found DEF PathMeets
  <1>2. CASE IsPrefix(UnderContacts, target) /\ id \in FindExact(ContactById, method)
        BY <1>2, Found DEF PathMeets
  <1>3. CASE IsPrefix(UnderFavorites, target) /\ id \in FindExact(FavoriteById, method)
        BY <1>3, Found DEF PathMeets
  <1>4. CASE IsPrefix(UnderNotifications, target) /\ id \in FindExact(NotificationById, method)
        BY <1>4, Found DEF PathMeets
  <1>5. CASE OneSegment(target) /\ target # Me /\ id \in FindExact(UserById, method)
        BY <1>5, Found DEF PathMeets
  <1>. QED BY <1>1, <1>2, <1>3, <1>4, <1>5 DEF ResolveRoute

\* The handler bound for an operation is its own, which knows only its own.
LEMMA BoundHandler ==
  ASSUME NEW target, NEW method, NEW id
  PROVE  /\ id \in ProfileIds => Dispatch(id, target, method) = ProfileHandle(target, method)
         /\ id \in ContactsIds => Dispatch(id, target, method) = ContactsHandle(target, method)
         /\ id \in PrivacyIds => Dispatch(id, target, method) = PrivacyHandle(target, method)
         /\ id \in FavoritesIds => Dispatch(id, target, method) = FavoritesHandle(target, method)
         /\ id \in NotificationsIds =>
              Dispatch(id, target, method) = NotificationsHandle(target, method)
  <1>1. id \in ProfileIds => Bind(id) = ProfileIds
        BY DEF Bind, ProfileIds, ContactsIds, PrivacyIds, FavoritesIds, NotificationsIds
  <1>2. id \in ContactsIds => Bind(id) = ContactsIds
        BY DEF Bind, ProfileIds, ContactsIds, PrivacyIds, FavoritesIds, NotificationsIds
  <1>3. id \in PrivacyIds => Bind(id) = PrivacyIds
        BY DEF Bind, ProfileIds, ContactsIds, PrivacyIds, FavoritesIds, NotificationsIds
  <1>4. id \in FavoritesIds => Bind(id) = FavoritesIds
        BY DEF Bind, ProfileIds, ContactsIds, PrivacyIds, FavoritesIds, NotificationsIds
  <1>5. id \in NotificationsIds => Bind(id) = NotificationsIds
        BY DEF Bind, ProfileIds, ContactsIds, PrivacyIds, FavoritesIds, NotificationsIds
  <1>6. /\ ProfileHandle(target, method) \subseteq ProfileIds
        /\ ContactsHandle(target, method) \subseteq ContactsIds
        /\ PrivacyHandle(target, method) \subseteq PrivacyIds
        /\ FavoritesHandle(target, method) \subseteq FavoritesIds
        /\ NotificationsHandle(target, method) \subseteq NotificationsIds
        BY DEF ProfileHandle, ContactsHandle, PrivacyHandle, FavoritesHandle, NotificationsHandle
  <1>7. /\ \A x \in ProfileIds : x \notin ContactsIds \cup PrivacyIds \cup FavoritesIds
                                          \cup NotificationsIds
        /\ \A x \in ContactsIds : x \notin PrivacyIds \cup FavoritesIds \cup NotificationsIds
        /\ \A x \in PrivacyIds : x \notin FavoritesIds \cup NotificationsIds
        /\ \A x \in FavoritesIds : x \notin NotificationsIds
        BY DEF ProfileIds, ContactsIds, PrivacyIds, FavoritesIds, NotificationsIds
  <1>8. id \in ProfileIds => Dispatch(id, target, method) = ProfileHandle(target, method)
        BY <1>1, <1>6, <1>7 DEF Dispatch
  <1>9. id \in ContactsIds => Dispatch(id, target, method) = ContactsHandle(target, method)
        BY <1>2, <1>6, <1>7 DEF Dispatch
  <1>10. id \in PrivacyIds => Dispatch(id, target, method) = PrivacyHandle(target, method)
        BY <1>3, <1>6, <1>7 DEF Dispatch
  <1>11. id \in FavoritesIds => Dispatch(id, target, method) = FavoritesHandle(target, method)
        BY <1>4, <1>6, <1>7 DEF Dispatch
  <1>12. id \in NotificationsIds =>
           Dispatch(id, target, method) = NotificationsHandle(target, method)
        BY <1>5, <1>6, <1>7 DEF Dispatch
  <1>. QED BY <1>8, <1>9, <1>10, <1>11, <1>12

\* A path without a placeholder is none of those with one.
LEMMA FixedPaths ==
  /\ InternalProfiles # ContactById /\ InternalProfiles # FavoriteById
  /\ InternalProfiles # NotificationById /\ InternalProfiles # UserById
  /\ Me # ContactById /\ Me # FavoriteById
  /\ Me # NotificationById /\ Me # UserById
  /\ MyAvatar # ContactById /\ MyAvatar # FavoriteById
  /\ MyAvatar # NotificationById /\ MyAvatar # UserById
  /\ MyPrivacy # ContactById /\ MyPrivacy # FavoriteById
  /\ MyPrivacy # NotificationById /\ MyPrivacy # UserById
  /\ Contacts # ContactById /\ Contacts # FavoriteById
  /\ Contacts # NotificationById /\ Contacts # UserById
  /\ Favorites # ContactById /\ Favorites # FavoriteById
  /\ Favorites # NotificationById /\ Favorites # UserById
  /\ Notifications # ContactById /\ Notifications # FavoriteById
  /\ Notifications # NotificationById /\ Notifications # UserById
  BY DEF InternalProfiles, Me, MyAvatar, MyPrivacy, Contacts, Favorites, Notifications,
         UserById, ContactById, FavoriteById, NotificationById

\* Of the operations of each handler, the method and the path of a route select its
\* own and no other.
LEMMA RouteKnown ==
  ASSUME NEW target, NEW method, NEW id \in ResolveRoute(target, method)
  PROVE  Dispatch(id, target, method) = {id}
  <1>1. PICK path : /\ id \in HandlerIds /\ Routes[id] = Route(method, path)
                    /\ PathMeets(path, target)
        BY ResolvedMeets
  <1>2. /\ Routes[id].method = method
        /\ PathMeets(Routes[id].path, target)
        BY <1>1 DEF Route
  <1>4. /\ UserById # ContactById /\ UserById # FavoriteById /\ UserById # NotificationById
        /\ ContactById # FavoriteById /\ ContactById # NotificationById
        /\ FavoriteById # NotificationById
        BY DEF UserById, ContactById, FavoriteById, NotificationById
  <1>5. OneSegment(target) => IsPrefix(Slash, target)
        BY DEF OneSegment
  <1>6. CASE id \in ProfileIds
    <2>1. CASE id = "CreateProfile"
          <3>1. method = "POST" /\ target = InternalProfiles
                BY <2>1, <1>2, RoutesAre, FixedPaths DEF PathMeets, Route
          <3>. QED BY <3>1, <2>1, <1>6, BoundHandler, PathsDiffer DEF ProfileHandle, ProfileIds
    <2>2. CASE id = "GetMyProfile"
          <3>1. method = "GET" /\ target = Me
                BY <2>2, <1>2, RoutesAre, FixedPaths DEF PathMeets, Route
          <3>. QED BY <3>1, <2>2, <1>6, BoundHandler DEF ProfileHandle, ProfileIds
    <2>3. CASE id = "UpdateProfile"
          <3>1. method = "PATCH" /\ target = Me
                BY <2>3, <1>2, RoutesAre, FixedPaths DEF PathMeets, Route
          <3>. QED BY <3>1, <2>3, <1>6, BoundHandler DEF ProfileHandle, ProfileIds
    <2>4. CASE id = "GetProfileByID"
          <3>1. method = "GET" /\ IsPrefix(Slash, target) /\ target # Me
                BY <2>4, <1>2, <1>4, <1>5, RoutesAre, PathsDiffer DEF PathMeets, Route
          <3>. QED BY <3>1, <2>4, <1>6, BoundHandler DEF ProfileHandle, ProfileIds
    <2>5. CASE id = "UploadAvatar"
          <3>1. method = "POST" /\ target = MyAvatar
                BY <2>5, <1>2, RoutesAre, FixedPaths DEF PathMeets, Route
          <3>. QED BY <3>1, <2>5, <1>6, BoundHandler, PathsDiffer DEF ProfileHandle, ProfileIds
    <2>6. CASE id = "DeleteAvatar"
          <3>1. method = "DELETE" /\ target = MyAvatar
                BY <2>6, <1>2, RoutesAre, FixedPaths DEF PathMeets, Route
          <3>. QED BY <3>1, <2>6, <1>6, BoundHandler DEF ProfileHandle, ProfileIds
    <2>. QED BY <1>6, <2>1, <2>2, <2>3, <2>4, <2>5, <2>6 DEF ProfileIds
  <1>7. CASE id \in ContactsIds
    <2>1. CASE id = "GetContacts"
          <3>1. method = "GET" /\ target = Contacts
                BY <2>1, <1>2, RoutesAre, FixedPaths DEF PathMeets, Route
          <3>. QED BY <3>1, <2>1, <1>7, BoundHandler DEF ContactsHandle, ContactsIds
    <2>2. CASE id = "AddContact"
          <3>1. method = "POST" /\ target = Contacts
                BY <2>2, <1>2, RoutesAre, FixedPaths DEF PathMeets, Route
          <3>. QED BY <3>1, <2>2, <1>7, BoundHandler DEF ContactsHandle, ContactsIds
    <2>3. CASE id = "DeleteContact"
          <3>1. method = "DELETE" /\ IsPrefix(UnderContacts, target)
                BY <2>3, <1>2, <1>4, RoutesAre, PathsDiffer DEF PathMeets, Route
          <3>. QED BY <3>1, <2>3, <1>7, BoundHandler DEF ContactsHandle, ContactsIds
    <2>. QED BY <1>7, <2>1, <2>2, <2>3 DEF ContactsIds
  <1>8. CASE id \in PrivacyIds
    <2>1. CASE id = "GetPrivacy"
          <3>1. method = "GET" /\ target = MyPrivacy
                BY <2>1, <1>2, RoutesAre, FixedPaths DEF PathMeets, Route
          <3>. QED BY <3>1, <2>1, <1>8, BoundHandler DEF PrivacyHandle, PrivacyIds
    <2>2. CASE id = "UpdatePrivacy"
          <3>1. method = "PUT" /\ target = MyPrivacy
                BY <2>2, <1>2, RoutesAre, FixedPaths DEF PathMeets, Route
          <3>. QED BY <3>1, <2>2, <1>8, BoundHandler DEF PrivacyHandle, PrivacyIds
    <2>. QED BY <1>8, <2>1, <2>2 DEF PrivacyIds
  <1>9. CASE id \in FavoritesIds
    <2>1. CASE id = "GetFavorites"
          <3>1. method = "GET" /\ target = Favorites
                BY <2>1, <1>2, RoutesAre, FixedPaths DEF PathMeets, Route
          <3>. QED BY <3>1, <2>1, <1>9, BoundHandler DEF FavoritesHandle, FavoritesIds
    <2>2. CASE id = "AddFavorite"
          <3>1. method = "POST" /\ IsPrefix(UnderFavorites, target)
                BY <2>2, <1>2, <1>4, RoutesAre, PathsDiffer DEF PathMeets, Route
          <3>. QED BY <3>1, <2>2, <1>9, BoundHandler DEF FavoritesHandle, FavoritesIds
    <2>3. CASE id = "RemoveFavorite"
          <3>1. method = "DELETE" /\ IsPrefix(UnderFavorites, target)
                BY <2>3, <1>2, <1>4, RoutesAre, PathsDiffer DEF PathMeets, Route
          <3>. QED BY <3>1, <2>3, <1>9, BoundHandler DEF FavoritesHandle, FavoritesIds
    <2>. QED BY <1>9, <2>1, <2>2, <2>3 DEF FavoritesIds
  <1>10. CASE id \in NotificationsIds
    <2>1. CASE id = "GetNotifications"
          <3>1. method = "GET" /\ target = Notifications
                BY <2>1, <1>2, RoutesAre, FixedPaths DEF PathMeets, Route
          <3>. QED BY <3>1, <2>1, <1>10, BoundHandler, PathsDiffer
                   DEF NotificationsHandle, NotificationsIds
    <2>2. CASE id = "GetChatNotifications"
          <3>1. /\ method = "GET" /\ IsPrefix(UnderNotifications, target)
                /\ target # Notifications
                BY <2>2, <1>2, <1>4, RoutesAre, PathsDiffer DEF PathMeets, Route
          <3>. QED BY <3>1, <2>2, <1>10, BoundHandler DEF NotificationsHandle, NotificationsIds
    <2>3. CASE id = "UpdateNotifications"
          <3>1. method = "PUT" /\ target = Notifications
                BY <2>3, <1>2, RoutesAre, FixedPaths DEF PathMeets, Route
          <3>. QED BY <3>1, <2>3, <1>10, BoundHandler, PathsDiffer
                   DEF NotificationsHandle, NotificationsIds
    <2>4. CASE id = "UpdateChatNotifications"
          <3>1. /\ method = "PUT" /\ IsPrefix(UnderNotifications, target)
                /\ target # Notifications
                BY <2>4, <1>2, <1>4, RoutesAre, PathsDiffer DEF PathMeets, Route
          <3>. QED BY <3>1, <2>4, <1>10, BoundHandler DEF NotificationsHandle, NotificationsIds
    <2>. QED BY <1>10, <2>1, <2>2, <2>3, <2>4 DEF NotificationsIds
  <1>. QED BY <1>1, <1>6, <1>7, <1>8, <1>9, <1>10, RoutesAre

-------------------------------------------------------------------------------
(***************************************************************************)
(* The invariant: which of the variables are filled in at each phase, and  *)
(* that what is bound was resolved and admitted.                           *)
(***************************************************************************)
\* Only the operation of the route that admitted the request is run, and what is
\* handed on is its request.
Bound ==
  /\ request \in Arriving
  /\ request.method # "OPTIONS" /\ Admitted
  /\ route \in Resolved
  /\ params = ExtractPathParams(request.target)

ParamsThere == ParamOf(op) \subseteq DOMAIN params

HandedOn ==
  /\ ParamsThere
  /\ response = None
  /\ op # "CreateProfile" => handed.user = request.user

Inv ==
  /\ phase \in Phases
  /\ phase \in {"idle", "received"} => route = None /\ op = None /\ handed = None
  /\ phase = "received" => request \in Arriving
  /\ phase = "bound" => route # None /\ op = None
  /\ phase \in {"dispatched", "decoding"} => route # None /\ op = route
  /\ phase = "decoding" => ParamsThere /\ op = "UploadAvatar"
  /\ phase # "done" => handed = None /\ response = None
  /\ route # None => Bound
  /\ op # None => op = route /\ route # None
  /\ response = 404 => route = None
  /\ handed # None => op # None /\ HandedOn

LEMMA ResolvedIsHandler ==
  ASSUME NEW target, NEW method
  PROVE  ResolveRoute(target, method) \subseteq HandlerIds
  BY ResolvedMeets

LEMMA Initial == Init => Inv
  BY DEF Init, Inv, Phases

\* HandOver gives a request of the operation that runs, in the name of the header
\* except for CreateProfile.
LEMMA HandingOver ==
  ASSUME Inv, NEW r, HandOver(r), op \in HandlerIds, ParamsThere,
         phase \in {"dispatched", "decoding"},
         op # "CreateProfile" => r.user = request.user
  PROVE  Inv'
  <1>1. /\ phase' = "done" /\ handed' = r
        /\ UNCHANGED <<request, route, params, op, response>>
        BY DEF HandOver, context
  <1>2. (route # None => Bound)'
        BY <1>1 DEF Inv, Bound, Admitted, CreatesProfile, Resolved
  <1>3. (handed # None => op # None /\ HandedOn)'
        BY <1>1, MarkAssumption DEF Inv, HandedOn, ParamsThere
  <1>. QED BY <1>1, <1>2, <1>3 DEF Inv, Phases

LEMMA Responding ==
  ASSUME Inv, NEW status, Respond(status),
         phase \in {"received", "bound", "dispatched"},
         status = 404 => route = None
  PROVE  Inv'
  <1>1. /\ phase' = "done" /\ response' = status
        /\ UNCHANGED <<request, route, params, op, handed>>
        BY DEF Respond, context
  <1>2. (route # None => Bound)'
        BY <1>1 DEF Inv, Bound, Admitted, CreatesProfile, Resolved
  <1>. QED BY <1>1, <1>2 DEF Inv, Phases

LEMMA Inductive == Inv /\ [Next]_vars => Inv'
  <1>. SUFFICES ASSUME Inv, [Next]_vars PROVE Inv'
       OBVIOUS
  <1>1. CASE Receive
        BY <1>1 DEF Receive, Inv, Phases
  <1>2. CASE AnswerOptions
        BY <1>2, Responding DEF AnswerOptions
  <1>3. CASE RouteNotFound
        BY <1>3, Responding DEF RouteNotFound, Inv
  <1>4. CASE MissingUser
        BY <1>4, Responding DEF MissingUser
  <1>5. CASE BindHandler
    <2>1. /\ phase = "received" /\ phase' = "bound" /\ route' \in HandlerIds
          /\ UNCHANGED <<request, op, response, handed>>
          BY <1>5, ResolvedIsHandler DEF BindHandler, Resolved
    <2>2. Bound'
          BY <1>5, <2>1 DEF BindHandler, Bound, Admitted, CreatesProfile, Resolved, Inv
    <2>. QED BY <2>1, <2>2, MarkAssumption DEF Inv, Phases
  <1>6. CASE DispatchToHandler
    <2>1. phase = "bound" /\ Bound /\ route \in HandlerIds
          BY <1>6, ResolvedIsHandler DEF DispatchToHandler, Inv, Bound, Resolved
    <2>2. Dispatch(route, request.target, request.method) = {route}
          BY <2>1, RouteKnown DEF Bound, Resolved
    <2>3. /\ phase' = "dispatched" /\ op' = route
          /\ UNCHANGED <<request, route, params, response, handed>>
          BY <1>6, <2>2 DEF DispatchToHandler, context
    <2>4. Bound'
          BY <2>1, <2>3 DEF Bound, Admitted, CreatesProfile, Resolved
    <2>. QED BY <2>1, <2>3, <2>4, MarkAssumption DEF Inv, Phases
  <1>7. CASE ParamMissing
        BY <1>7, Responding DEF ParamMissing
  <1>8. ASSUME NEW id \in HandlerIds, Runs(id)
        PROVE  /\ phase \in {"dispatched", "decoding"} /\ op = id
               /\ op \in HandlerIds /\ ParamsThere
        BY <1>8 DEF Runs, ParamsThere
  <1>9. CASE HandleWithoutBody
    <2>1. CASE \E id \in ReadsNoBody :
                 Runs(id) /\ HandOver([op |-> id, user |-> request.user])
          BY <2>1, <1>8, HandingOver, RoutesAre
             DEF ReadsNoBody, ProfileIds, ContactsIds, PrivacyIds, FavoritesIds, NotificationsIds
    <2>2. CASE /\ Runs("GetProfileByID")
               /\ HandOver([op |-> op, user |-> request.user,
                            target |-> Plain(params["user_id"])])
          BY <2>2, <1>8, HandingOver, RoutesAre DEF ProfileIds
    <2>3. CASE /\ Runs("DeleteContact")
               /\ HandOver([op |-> op, user |-> request.user,
                            contact |-> Plain(params["contact_id"])])
          BY <2>3, <1>8, HandingOver, RoutesAre DEF ContactsIds
    <2>4. CASE \E id \in {"AddFavorite", "RemoveFavorite", "GetChatNotifications"} :
                 /\ Runs(id)
                 /\ HandOver([op |-> id, user |-> request.user,
                              chat |-> Plain(params["chat_id"])])
          BY <2>4, <1>8, HandingOver, RoutesAre DEF FavoritesIds, NotificationsIds
    <2>. QED BY <1>9, <2>1, <2>2, <2>3, <2>4 DEF HandleWithoutBody
  <1>10. CASE HandleCreateProfile
    <2>1. op = "CreateProfile" /\ op \in HandlerIds /\ ParamsThere /\ phase = "dispatched"
          BY <1>10, <1>8, RoutesAre DEF HandleCreateProfile, ProfileIds, Runs
    <2>2. \E r : HandOver(r)
          BY <1>10 DEF HandleCreateProfile, HandOverBody
    <2>. QED BY <2>1, <2>2, HandingOver
  <1>11. CASE HandleUpdateProfile
    <2>1. op \in HandlerIds /\ ParamsThere /\ phase = "dispatched"
          BY <1>11, <1>8, RoutesAre DEF HandleUpdateProfile, ProfileIds, Runs
    <2>2. \E r : HandOver(r) /\ r.user = request.user
          BY <1>11 DEF HandleUpdateProfile, HandOverBody
    <2>. QED BY <2>1, <2>2, HandingOver
  <1>12. CASE HandleUpdatePrivacy
    <2>1. op \in HandlerIds /\ ParamsThere /\ phase = "dispatched"
          BY <1>12, <1>8, RoutesAre DEF HandleUpdatePrivacy, PrivacyIds, Runs
    <2>2. \E r : HandOver(r) /\ r.user = request.user
          BY <1>12 DEF HandleUpdatePrivacy, HandOverBody
    <2>. QED BY <2>1, <2>2, HandingOver
  <1>13. CASE HandleAddContact
    <2>1. op \in HandlerIds /\ ParamsThere /\ phase = "dispatched"
          BY <1>13, <1>8, RoutesAre DEF HandleAddContact, ContactsIds, Runs
    <2>2. \E r : HandOver(r) /\ r.user = request.user
          BY <1>13 DEF HandleAddContact, HandOverBody
    <2>. QED BY <2>1, <2>2, HandingOver
  <1>14. CASE HandleUploadAvatar
    <2>1. op = "UploadAvatar" /\ op \in HandlerIds /\ ParamsThere /\ phase = "dispatched"
          BY <1>14, <1>8, RoutesAre DEF HandleUploadAvatar, ProfileIds, Runs
    <2>2. CASE \E r : HandOver(r) /\ r.user = request.user
          BY <2>1, <2>2, HandingOver
    <2>3. CASE phase' = "decoding" /\ UNCHANGED <<context, op, response, handed>>
      <3>1. UNCHANGED <<request, route, params, op, response, handed>>
            BY <2>3 DEF context
      <3>2. Bound'
            BY <2>1, <3>1 DEF Inv, Bound, Admitted, CreatesProfile, Resolved
      <3>3. ParamsThere'
            BY <2>1, <3>1 DEF ParamsThere
      <3>. QED BY <2>1, <2>3, <3>1, <3>2, <3>3 DEF Inv, Phases
    <2>. QED BY <1>14, <2>2, <2>3 DEF HandleUploadAvatar, HandOverBody
  <1>15. CASE Decode
    <2>1. /\ phase = "decoding"
          /\ UNCHANGED <<phase, request, route, params, op, response, handed>>
          BY <1>15 DEF Decode, context
    <2>2. Bound' /\ ParamsThere'
          BY <2>1 DEF Inv, Bound, Admitted, CreatesProfile, Resolved, ParamsThere
    <2>. QED BY <2>1, <2>2 DEF Inv, Phases
  <1>16. CASE FinishUpload
    <2>1. op \in HandlerIds /\ ParamsThere /\ phase = "decoding"
          BY <1>16, RoutesAre DEF FinishUpload, Inv, ProfileIds
    <2>2. \E r : HandOver(r) /\ r.user = request.user
          BY <1>16 DEF FinishUpload, HandOverBody
    <2>. QED BY <2>1, <2>2, HandingOver
  <1>17. CASE HandleUpdateNotifications
    <2>1. op \in HandlerIds /\ ParamsThere /\ phase = "dispatched"
          BY <1>17, <1>8, RoutesAre DEF HandleUpdateNotifications, NotificationsIds, Runs
    <2>2. \E r : HandOver(r) /\ r.user = request.user
          BY <1>17 DEF HandleUpdateNotifications, HandOverBody
    <2>. QED BY <2>1, <2>2, HandingOver
  <1>18. CASE Done
        BY <1>18, MarkAssumption DEF Done, Inv, Phases
  <1>19. CASE UNCHANGED vars
    <2>1. UNCHANGED <<phase, request, route, params, op, response, handed>>
          BY <1>19 DEF vars, context
    <2>2. Bound' = Bound /\ ParamsThere' = ParamsThere
          BY <2>1 DEF Bound, Admitted, CreatesProfile, Resolved, ParamsThere
    <2>. QED BY <2>1, <2>2 DEF Inv, HandedOn, ParamsThere
  <1>. QED
       BY <1>1, <1>2, <1>3, <1>4, <1>5, <1>6, <1>7, <1>9, <1>10, <1>11, <1>12, <1>13, <1>14,
          <1>15, <1>16, <1>17, <1>18, <1>19 DEF Next, Step

LEMMA SpecInv == Spec => []Inv
  BY Initial, Inductive, PTL DEF Spec

-------------------------------------------------------------------------------
\* RouteIsDispatched: the handler a route binds runs the operation the route is
\* for, and never answers 404 to what was routed to it.
THEOREM RoutedIsRun == Spec => []RouteIsDispatched
  <1>1. Inv => RouteIsDispatched
        BY DEF Inv, RouteIsDispatched
  <1>. QED BY <1>1, SpecInv, PTL

\* The one request that needs no user comes to CreateProfile.
LEMMA InternalIsCreate ==
  ASSUME NEW id \in ResolveRoute(InternalProfiles, "POST")
  PROVE  id = "CreateProfile"
  <1>1. "CreateProfile" \in FindExact(InternalProfiles, "POST")
        BY RoutesAre DEF FindExact, ProfileIds
  <1>2. id \in HandlerIds /\ Routes[id].method = "POST" /\ Routes[id].path = InternalProfiles
        BY <1>1, Found DEF ResolveRoute
  <1>3. /\ InternalProfiles # MyAvatar /\ InternalProfiles # Contacts
        /\ InternalProfiles # FavoriteById
        BY DEF InternalProfiles, MyAvatar, Contacts, FavoriteById
  <1>. QED BY <1>2, <1>3, RoutesAre
           DEF Route, ProfileIds, ContactsIds, PrivacyIds, FavoritesIds, NotificationsIds

\* NoOneActsAnonymously: without an X-User-ID nothing is handed on but a
\* CreateProfile, and the rest is in the name of that header.
THEOREM OnlyCreateIsAnonymous == Spec => []NoOneActsAnonymously
  <1>1. ASSUME Inv, handed # None, op # "CreateProfile"
        PROVE  handed.user # NoUser /\ handed.user = request.user
    <2>1. Bound /\ HandedOn /\ op = route
          BY <1>1 DEF Inv
    <2>2. ~CreatesProfile
          BY <2>1, <1>1, InternalIsCreate DEF Bound, CreatesProfile, Resolved
    <2>. QED BY <2>1, <2>2, <1>1 DEF Bound, HandedOn, Admitted
  <1>2. Inv => NoOneActsAnonymously
        BY <1>1 DEF NoOneActsAnonymously
  <1>. QED BY <1>2, SpecInv, PTL

\* A prefix and what comes after it make the whole.
LEMMA PrefixAndRest ==
  ASSUME NEW S, NEW target \in Seq(S), NEW prefix \in Seq(S), IsPrefix(prefix, target)
  PROVE  /\ Len(prefix) <= Len(target)
         /\ \A i \in 1..Len(prefix) : target[i] = prefix[i]
         /\ prefix \o After(prefix, target) = target
  <1>1. /\ Len(prefix) <= Len(target)
        /\ SubSeq(prefix, 1, Len(prefix)) = SubSeq(target, 1, Len(prefix))
        BY DEF IsPrefix
  <1>2. \A i \in 1..Len(prefix) : target[i] = prefix[i]
        BY <1>1
  <1>3. After(prefix, target) \in Seq(S) /\ Len(After(prefix, target)) = Len(target) - Len(prefix)
        BY <1>1 DEF After
  <1>4. \A i \in 1..(Len(target) - Len(prefix)) :
          After(prefix, target)[i] = target[Len(prefix) + i]
        BY <1>1 DEF After
  <1>5. /\ prefix \o After(prefix, target) \in Seq(S)
        /\ Len(prefix \o After(prefix, target)) = Len(target)
        BY <1>3
  <1>6. \A i \in 1..Len(target) : (prefix \o After(prefix, target))[i] = target[i]
    <2>1. SUFFICES ASSUME NEW i \in 1..Len(target)
                   PROVE  (prefix \o After(prefix, target))[i] = target[i]
          OBVIOUS
    <2>2. (prefix \o After(prefix, target))[i] =
            IF i <= Len(prefix) THEN prefix[i] ELSE After(prefix, target)[i - Len(prefix)]
          BY <1>1, <1>3, ConcatProperties
    <2>3. CASE i <= Len(prefix)
          BY <2>2, <2>3, <1>2
    <2>4. CASE ~(i <= Len(prefix))
      <3>1. i - Len(prefix) \in 1..(Len(target) - Len(prefix))
            BY <2>1, <2>4
      <3>2. Len(prefix) + (i - Len(prefix)) = i
            BY <2>1
      <3>3. After(prefix, target)[i - Len(prefix)] = target[i]
            BY <3>1, <3>2, <1>4
      <3>. QED BY <2>2, <2>4, <3>3, Zenon
    <2>. QED BY <2>3, <2>4
  <1>7. prefix \o After(prefix, target) = target
        BY <1>5, <1>6, SeqEqual
  <1>. QED BY <1>1, <1>2, <1>7

PathNames == {"/", "contacts", "favorites", "notifications", "{contact_id}", "{chat_id}",
          "{user_id}"}

\* The path of a route without its placeholder is the prefix its target is known by.
LEMMA WithoutLast ==
  ASSUME NEW S, NEW path \in Seq(S), NEW prefix \in Seq(S), Len(path) = Len(prefix) + 1,
         \A i \in 1..Len(prefix) : path[i] = prefix[i]
  PROVE  SubSeq(path, 1, Len(path) - 1) = prefix
  <1>1. Len(path) - 1 = Len(prefix)
        OBVIOUS
  <1>2. /\ SubSeq(path, 1, Len(prefix)) \in Seq(S)
        /\ Len(SubSeq(path, 1, Len(prefix))) = Len(prefix)
        /\ \A i \in 1..Len(prefix) : SubSeq(path, 1, Len(prefix))[i] = prefix[i]
        BY SubSeqProperties
  <1>3. SubSeq(path, 1, Len(prefix)) = prefix
        BY <1>2, SeqEqual
  <1>. QED BY <1>1, <1>3

LEMMA PlaceholdersCut ==
  /\ SubSeq(ContactById, 1, Len(ContactById) - 1) = UnderContacts
  /\ SubSeq(FavoriteById, 1, Len(FavoriteById) - 1) = UnderFavorites
  /\ SubSeq(NotificationById, 1, Len(NotificationById) - 1) = UnderNotifications
  /\ SubSeq(UserById, 1, Len(UserById) - 1) = Slash
  <1>1. \A i \in 1..3 : i = 1 \/ i = 2 \/ i = 3
        OBVIOUS
  <1>2. SubSeq(ContactById, 1, Len(ContactById) - 1) = UnderContacts
    <2>1. /\ ContactById \in Seq(PathNames) /\ UnderContacts \in Seq(PathNames)
          /\ Len(ContactById) = 4 /\ Len(UnderContacts) = 3
          BY DEF ContactById, UnderContacts, PathNames
    <2>2. /\ ContactById[1] = UnderContacts[1] /\ ContactById[2] = UnderContacts[2]
          /\ ContactById[3] = UnderContacts[3]
          BY DEF ContactById, UnderContacts
    <2>3. \A i \in 1..3 : ContactById[i] = UnderContacts[i]
          BY <2>2, <1>1
    <2>. QED BY <2>1, <2>3, WithoutLast
  <1>3. SubSeq(FavoriteById, 1, Len(FavoriteById) - 1) = UnderFavorites
    <2>1. /\ FavoriteById \in Seq(PathNames) /\ UnderFavorites \in Seq(PathNames)
          /\ Len(FavoriteById) = 4 /\ Len(UnderFavorites) = 3
          BY DEF FavoriteById, UnderFavorites, PathNames
    <2>2. /\ FavoriteById[1] = UnderFavorites[1] /\ FavoriteById[2] = UnderFavorites[2]
          /\ FavoriteById[3] = UnderFavorites[3]
          BY DEF FavoriteById, UnderFavorites
    <2>3. \A i \in 1..3 : FavoriteById[i] = UnderFavorites[i]
          BY <2>2, <1>1
    <2>. QED BY <2>1, <2>3, WithoutLast
  <1>4. SubSeq(NotificationById, 1, Len(NotificationById) - 1) = UnderNotifications
    <2>1. /\ NotificationById \in Seq(PathNames) /\ UnderNotifications \in Seq(PathNames)
          /\ Len(NotificationById) = 4 /\ Len(UnderNotifications) = 3
          BY DEF NotificationById, UnderNotifications, PathNames
    <2>2. /\ NotificationById[1] = UnderNotifications[1] /\ NotificationById[2] = UnderNotifications[2]
          /\ NotificationById[3] = UnderNotifications[3]
          BY DEF NotificationById, UnderNotifications
    <2>3. \A i \in 1..3 : NotificationById[i] = UnderNotifications[i]
          BY <2>2, <1>1
    <2>. QED BY <2>1, <2>3, WithoutLast
  <1>5. SubSeq(UserById, 1, Len(UserById) - 1) = Slash
    <2>1. /\ UserById \in Seq(PathNames) /\ Slash \in Seq(PathNames)
          /\ Len(UserById) = 2 /\ Len(Slash) = 1 /\ UserById[1] = Slash[1]
          BY DEF UserById, Slash, PathNames
    <2>. QED BY <2>1, WithoutLast
  <1>. QED BY <1>2, <1>3, <1>4, <1>5

\* A target is under one of the prefixes only.
LEMMA PrefixesDiffer ==
  ASSUME NEW S, PathNames \subseteq S, NEW target \in Seq(S)
  PROVE  ~(IsPrefix(UnderFavorites, target) /\ IsPrefix(UnderNotifications, target))
  <1>. SUFFICES ASSUME IsPrefix(UnderFavorites, target), IsPrefix(UnderNotifications, target)
                PROVE  FALSE
       OBVIOUS
  <1>1. UnderFavorites \in Seq(S) /\ UnderNotifications \in Seq(S)
    <2>1. "/" \in S /\ "favorites" \in S /\ "notifications" \in S
          BY DEF PathNames
    <2>. QED BY <2>1 DEF UnderFavorites, UnderNotifications
  <1>2. 2 \in 1..Len(UnderFavorites) /\ 2 \in 1..Len(UnderNotifications)
        BY DEF UnderFavorites, UnderNotifications
  <1>3. target[2] = UnderFavorites[2] /\ target[2] = UnderNotifications[2]
        BY <1>1, <1>2, PrefixAndRest
  <1>. QED BY <1>3 DEF UnderFavorites, UnderNotifications

\* What a handler finds in PathParams under its parameter's name is the rest of the
\* target after the prefix of its route.
LEMMA ParamIsRest ==
  ASSUME NEW S, PathNames \subseteq S, NEW target \in Seq(S), NEW name,
         name \in DOMAIN ExtractPathParams(target)
  PROVE  /\ name = "contact_id" => /\ IsPrefix(UnderContacts, target)
                                   /\ ExtractPathParams(target)[name] = After(UnderContacts, target)
         /\ name = "chat_id" /\ IsPrefix(UnderFavorites, target) =>
              ExtractPathParams(target)[name] = After(UnderFavorites, target)
         /\ name = "chat_id" /\ IsPrefix(UnderNotifications, target) =>
              ExtractPathParams(target)[name] = After(UnderNotifications, target)
         /\ name = "user_id" => /\ IsPrefix(Slash, target)
                                /\ ExtractPathParams(target)[name] = After(Slash, target)
  <1>1. \A n, v : DOMAIN Param(n, v) = {n} /\ Param(n, v)[n] = v
        BY DEF Param
  <1>2. DOMAIN NoParams = {}
        BY DEF NoParams
  <1>3. ~(IsPrefix(UnderFavorites, target) /\ IsPrefix(UnderNotifications, target))
        BY PrefixesDiffer
  <1>4. CASE IsPrefix(UnderContacts, target)
    <2>1. ExtractPathParams(target) = Param("contact_id", After(UnderContacts, target))
          BY <1>4 DEF ExtractPathParams
    <2>2. DOMAIN ExtractPathParams(target) = {"contact_id"}
          BY <1>1, <2>1
    <2>3. name = "contact_id" /\ ExtractPathParams(target)[name] = After(UnderContacts, target)
          BY <1>1, <2>1, <2>2
    <2>. QED BY <1>3, <1>4, <2>3
  <1>5. CASE ~IsPrefix(UnderContacts, target) /\ IsPrefix(UnderFavorites, target)
    <2>1. ExtractPathParams(target) = Param("chat_id", After(UnderFavorites, target))
          BY <1>5 DEF ExtractPathParams
    <2>2. DOMAIN ExtractPathParams(target) = {"chat_id"}
          BY <1>1, <2>1
    <2>3. name = "chat_id" /\ ExtractPathParams(target)[name] = After(UnderFavorites, target)
          BY <1>1, <2>1, <2>2
    <2>. QED BY <1>3, <1>5, <2>3
  <1>6. CASE /\ ~IsPrefix(UnderContacts, target) /\ ~IsPrefix(UnderFavorites, target)
             /\ IsPrefix(UnderNotifications, target)
    <2>1. ExtractPathParams(target) = Param("chat_id", After(UnderNotifications, target))
          BY <1>6 DEF ExtractPathParams
    <2>2. DOMAIN ExtractPathParams(target) = {"chat_id"}
          BY <1>1, <2>1
    <2>3. name = "chat_id" /\ ExtractPathParams(target)[name] = After(UnderNotifications, target)
          BY <1>1, <2>1, <2>2
    <2>. QED BY <1>3, <1>6, <2>3
  <1>7. CASE /\ ~IsPrefix(UnderContacts, target) /\ ~IsPrefix(UnderFavorites, target)
             /\ ~IsPrefix(UnderNotifications, target)
    <2>1. /\ ExtractPathParams(target) = Param("user_id", After(Slash, target))
          /\ IsPrefix(Slash, target)
          BY <1>2, <1>7 DEF ExtractPathParams
    <2>2. DOMAIN ExtractPathParams(target) = {"user_id"}
          BY <1>1, <2>1
    <2>3. name = "user_id" /\ ExtractPathParams(target)[name] = After(Slash, target)
          BY <1>1, <2>1, <2>2
    <2>. QED BY <2>1, <2>3
  <1>. QED BY <1>4, <1>5, <1>6, <1>7

\* ReachedByItsPath: what a handler carries out is what the target says, its route
\* with the parameter it was given in the place of the placeholder.
THEOREM TargetIsItsPath == Spec => []ReachedByItsPath
  <1>. DEFINE S == Tokens \cup PathNames
              target == request.target
  <1>1. ASSUME Inv, handed # None
        PROVE  request.method = Routes[op].method /\ target = Filled(op)
    <2>1. /\ op \in Resolved /\ op \in HandlerIds /\ ParamOf(op) \subseteq DOMAIN params
          /\ params = ExtractPathParams(target) /\ request \in Arriving
          BY <1>1, ResolvedIsHandler DEF Inv, Bound, HandedOn, ParamsThere, Resolved
    <2>2. target \in Seq(S) /\ PathNames \subseteq S
      <3>1. target \in Seq(Tokens)
            BY <2>1, ArrivingAssumption
      <3>. QED BY <3>1
    <2>3. PICK path : Routes[op] = Route(request.method, path) /\ PathMeets(path, target)
          BY <2>1, ResolvedMeets DEF Resolved
    <2>4. /\ request.method = Routes[op].method
          /\ PathMeets(Routes[op].path, target)
          BY <2>3 DEF Route
    <2>5. \A name : (CHOOSE n \in {name} : TRUE) = name
          OBVIOUS
    <2>6. /\ UnderContacts \in Seq(S) /\ UnderFavorites \in Seq(S)
          /\ UnderNotifications \in Seq(S) /\ Slash \in Seq(S)
      <3>1. {"/", "contacts", "favorites", "notifications"} \subseteq S
            BY DEF PathNames
      <3>. QED BY <3>1 DEF UnderContacts, UnderFavorites, UnderNotifications, Slash
    <2>7. /\ UserById # ContactById /\ UserById # FavoriteById /\ UserById # NotificationById
          /\ ContactById # FavoriteById /\ ContactById # NotificationById
          /\ FavoriteById # NotificationById
          BY DEF UserById, ContactById, FavoriteById, NotificationById
    <2>8. CASE op = "DeleteContact"
      <3>1. ParamOf(op) = {"contact_id"} /\ Routes[op].path = ContactById
            BY <2>8, RoutesAre DEF ParamOf, Route
      <3>2. IsPrefix(UnderContacts, target) /\ params["contact_id"] = After(UnderContacts, target)
            BY <2>1, <2>2, <3>1, ParamIsRest
      <3>3. Filled(op) = UnderContacts \o After(UnderContacts, target)
            BY <2>5, <3>1, <3>2, PlaceholdersCut DEF Filled
      <3>. QED BY <2>2, <2>4, <2>6, <3>2, <3>3, PrefixAndRest
    <2>9. CASE op \in {"AddFavorite", "RemoveFavorite"}
      <3>1. ParamOf(op) = {"chat_id"} /\ Routes[op].path = FavoriteById
            BY <2>9, RoutesAre DEF ParamOf, Route
      <3>2. IsPrefix(UnderFavorites, target)
            BY <3>1, <2>4, <2>7, PathsDiffer DEF PathMeets
      <3>3. params["chat_id"] = After(UnderFavorites, target)
            BY <2>1, <2>2, <3>1, <3>2, ParamIsRest
      <3>4. Filled(op) = UnderFavorites \o After(UnderFavorites, target)
            BY <2>5, <3>1, <3>3, PlaceholdersCut DEF Filled
      <3>. QED BY <2>2, <2>4, <2>6, <3>2, <3>4, PrefixAndRest
    <2>10. CASE op \in {"GetChatNotifications", "UpdateChatNotifications"}
      <3>1. ParamOf(op) = {"chat_id"} /\ Routes[op].path = NotificationById
            BY <2>10, RoutesAre DEF ParamOf, Route
      <3>2. IsPrefix(UnderNotifications, target)
            BY <3>1, <2>4, <2>7, PathsDiffer DEF PathMeets
      <3>3. params["chat_id"] = After(UnderNotifications, target)
            BY <2>1, <2>2, <3>1, <3>2, ParamIsRest
      <3>4. Filled(op) = UnderNotifications \o After(UnderNotifications, target)
            BY <2>5, <3>1, <3>3, PlaceholdersCut DEF Filled
      <3>. QED BY <2>2, <2>4, <2>6, <3>2, <3>4, PrefixAndRest
    <2>11. CASE op = "GetProfileByID"
      <3>1. ParamOf(op) = {"user_id"} /\ Routes[op].path = UserById
            BY <2>11, RoutesAre DEF ParamOf, Route
      <3>2. IsPrefix(Slash, target) /\ params["user_id"] = After(Slash, target)
            BY <2>1, <2>2, <3>1, ParamIsRest
      <3>3. Filled(op) = Slash \o After(Slash, target)
            BY <2>5, <3>1, <3>2, PlaceholdersCut DEF Filled
      <3>. QED BY <2>2, <2>4, <2>6, <3>2, <3>3, PrefixAndRest
    <2>12. CASE op \notin {"DeleteContact", "AddFavorite", "RemoveFavorite", "GetProfileByID",
                           "GetChatNotifications", "UpdateChatNotifications"}
      <3>1. ParamOf(op) = {}
            BY <2>12 DEF ParamOf
      <3>2. Routes[op].path \in {InternalProfiles, Me, MyAvatar, MyPrivacy, Contacts, Favorites,
                                 Notifications}
            BY <2>1, <2>12, RoutesAre
               DEF Route, ProfileIds, ContactsIds, PrivacyIds, FavoritesIds, NotificationsIds
      <3>3. Routes[op].path \notin {UserById, ContactById, FavoriteById, NotificationById}
            BY <3>2, FixedPaths
      <3>4. target = Routes[op].path
            BY <2>4, <3>3 DEF PathMeets
      <3>. QED BY <2>4, <3>1, <3>4 DEF Filled
    <2>. QED BY <2>8, <2>9, <2>10, <2>11, <2>12
  <1>2. Inv => ReachedByItsPath
        BY <1>1 DEF ReachedByItsPath
  <1>. QED BY <1>2, SpecInv, PTL

-------------------------------------------------------------------------------
(***************************************************************************)
(* Completeness of the route table: what a route matches is resolved.      *)
(***************************************************************************)
\* A sequence begins with another when it is as long and agrees with it so far.
LEMMA BeginsWith ==
  ASSUME NEW S, NEW prefix \in Seq(S), NEW target \in Seq(S), Len(prefix) <= Len(target),
         \A i \in 1..Len(prefix) : target[i] = prefix[i]
  PROVE  IsPrefix(prefix, target)
  <1>1. /\ SubSeq(target, 1, Len(prefix)) \in Seq(S)
        /\ Len(SubSeq(target, 1, Len(prefix))) = Len(prefix)
        /\ \A i \in 1..Len(prefix) : SubSeq(target, 1, Len(prefix))[i] = target[i]
        BY SubSeqProperties
  <1>2. /\ SubSeq(prefix, 1, Len(prefix)) \in Seq(S)
        /\ Len(SubSeq(prefix, 1, Len(prefix))) = Len(prefix)
        /\ \A i \in 1..Len(prefix) : SubSeq(prefix, 1, Len(prefix))[i] = prefix[i]
        BY SubSeqProperties
  <1>3. SubSeq(prefix, 1, Len(prefix)) = SubSeq(target, 1, Len(prefix))
        BY <1>1, <1>2, SeqEqual
  <1>. QED BY <1>3 DEF IsPrefix

PathWords == PathNames \cup {"internal", "profiles", "me", "avatar", "privacy"}

\* Every path is made of words, and OPTIONS is the method of none.
LEMMA PathsAreSequences ==
  ASSUME NEW id \in HandlerIds
  PROVE  /\ Routes[id].path \in Seq(PathWords)
         /\ Routes[id].method # "OPTIONS"
  <1>1. /\ InternalProfiles \in Seq(PathWords) /\ Me \in Seq(PathWords)
        /\ MyAvatar \in Seq(PathWords) /\ MyPrivacy \in Seq(PathWords)
        BY DEF InternalProfiles, Me, MyAvatar, MyPrivacy, PathWords, PathNames
  <1>2. /\ Contacts \in Seq(PathWords) /\ ContactById \in Seq(PathWords)
        /\ Favorites \in Seq(PathWords) /\ FavoriteById \in Seq(PathWords)
        BY DEF Contacts, ContactById, Favorites, FavoriteById, PathWords, PathNames
  <1>3. /\ Notifications \in Seq(PathWords) /\ NotificationById \in Seq(PathWords)
        /\ UserById \in Seq(PathWords)
        BY DEF Notifications, NotificationById, UserById, PathWords, PathNames
  <1>. QED BY <1>1, <1>2, <1>3, RoutesAre
           DEF Route, ProfileIds, ContactsIds, PrivacyIds, FavoritesIds, NotificationsIds

\* The paths with a placeholder are four.
LEMMA PlaceholdersDiffer ==
  /\ UserById # ContactById /\ UserById # FavoriteById /\ UserById # NotificationById
  /\ ContactById # FavoriteById /\ ContactById # NotificationById
  /\ FavoriteById # NotificationById
  BY DEF UserById, ContactById, FavoriteById, NotificationById

\* The routes with a placeholder, and that no other has their path and method.
LEMMA PlaceholderRoutes ==
  /\ FindExact(ContactById, "DELETE") = {"DeleteContact"}
  /\ FindExact(FavoriteById, "POST") = {"AddFavorite"}
  /\ FindExact(FavoriteById, "DELETE") = {"RemoveFavorite"}
  /\ FindExact(NotificationById, "GET") = {"GetChatNotifications"}
  /\ FindExact(NotificationById, "PUT") = {"UpdateChatNotifications"}
  /\ FindExact(UserById, "GET") = {"GetProfileByID"}
  <1>1. \A m1, m2, p1, p2 : Route(m1, p1) = Route(m2, p2) => m1 = m2 /\ p1 = p2
    <2>. SUFFICES ASSUME NEW m1, NEW m2, NEW p1, NEW p2, Route(m1, p1) = Route(m2, p2)
                  PROVE  m1 = m2 /\ p1 = p2
         OBVIOUS
    <2>1. Route(m1, p1).method = m1 /\ Route(m2, p2).method = m2
          /\ Route(m1, p1).path = p1 /\ Route(m2, p2).path = p2
          BY DEF Route
    <2>. QED BY <2>1
  <1>2. FindExact(ContactById, "DELETE") = {"DeleteContact"}
        BY <1>1, RoutesAre, FixedPaths, PlaceholdersDiffer
           DEF FindExact, ProfileIds, ContactsIds, PrivacyIds, FavoritesIds, NotificationsIds
  <1>3. /\ FindExact(FavoriteById, "POST") = {"AddFavorite"}
        /\ FindExact(FavoriteById, "DELETE") = {"RemoveFavorite"}
        BY <1>1, RoutesAre, FixedPaths, PlaceholdersDiffer
           DEF FindExact, ProfileIds, ContactsIds, PrivacyIds, FavoritesIds, NotificationsIds
  <1>4. /\ FindExact(NotificationById, "GET") = {"GetChatNotifications"}
        /\ FindExact(NotificationById, "PUT") = {"UpdateChatNotifications"}
        BY <1>1, RoutesAre, FixedPaths, PlaceholdersDiffer
           DEF FindExact, ProfileIds, ContactsIds, PrivacyIds, FavoritesIds, NotificationsIds
  <1>5. FindExact(UserById, "GET") = {"GetProfileByID"}
        BY <1>1, RoutesAre, FixedPaths, PlaceholdersDiffer
           DEF FindExact, ProfileIds, ContactsIds, PrivacyIds, FavoritesIds, NotificationsIds
  <1>. QED BY <1>2, <1>3, <1>4, <1>5

\* The tokens a target must have to match a route with a placeholder.
LEMMA Placeholders ==
  /\ Len(ContactById) = 4 /\ ContactById[1] = "/" /\ ContactById[2] = "contacts"
  /\ ContactById[3] = "/"
  /\ Len(FavoriteById) = 4 /\ FavoriteById[1] = "/" /\ FavoriteById[2] = "favorites"
  /\ FavoriteById[3] = "/"
  /\ Len(NotificationById) = 4 /\ NotificationById[1] = "/"
  /\ NotificationById[2] = "notifications" /\ NotificationById[3] = "/"
  /\ Len(UserById) = 2 /\ UserById[1] = "/" /\ UserById[2] # "/"
  BY DEF ContactById, FavoriteById, NotificationById, UserById

\* The prefix a target begins with is known from its second token, when that is one
\* of the collections and a third follows.
LEMMA UnderWhich ==
  ASSUME NEW S, PathNames \subseteq S, NEW target \in Seq(S)
  PROVE  /\ IsPrefix(UnderContacts, target) <=>
              Len(target) >= 3 /\ target[1] = "/" /\ target[2] = "contacts" /\ target[3] = "/"
         /\ IsPrefix(UnderFavorites, target) <=>
              Len(target) >= 3 /\ target[1] = "/" /\ target[2] = "favorites" /\ target[3] = "/"
         /\ IsPrefix(UnderNotifications, target) <=>
              Len(target) >= 3 /\ target[1] = "/" /\ target[2] = "notifications"
                /\ target[3] = "/"
  <1>1. \A i \in 1..3 : i = 1 \/ i = 2 \/ i = 3
        OBVIOUS
  <1>2. "/" \in S /\ "contacts" \in S /\ "favorites" \in S /\ "notifications" \in S
        BY DEF PathNames
  <1>3. IsPrefix(UnderContacts, target) <=>
          Len(target) >= 3 /\ target[1] = "/" /\ target[2] = "contacts" /\ target[3] = "/"
    <2>1. /\ UnderContacts \in Seq(S) /\ Len(UnderContacts) = 3 /\ UnderContacts[1] = "/"
          /\ UnderContacts[2] = "contacts" /\ UnderContacts[3] = "/"
          BY <1>2 DEF UnderContacts
    <2>2. ASSUME IsPrefix(UnderContacts, target)
          PROVE  Len(target) >= 3 /\ target[1] = "/" /\ target[2] = "contacts"
                   /\ target[3] = "/"
      <3>1. /\ Len(UnderContacts) <= Len(target)
            /\ \A i \in 1..Len(UnderContacts) : target[i] = UnderContacts[i]
            BY <2>1, <2>2, PrefixAndRest
      <3>. QED BY <2>1, <3>1
    <2>3. ASSUME Len(target) >= 3, target[1] = "/", target[2] = "contacts",
                 target[3] = "/"
          PROVE  IsPrefix(UnderContacts, target)
      <3>1. \A i \in 1..Len(UnderContacts) : target[i] = UnderContacts[i]
            BY <1>1, <2>1, <2>3
      <3>. QED BY <2>1, <2>3, <3>1, BeginsWith
    <2>. QED BY <2>2, <2>3
  <1>4. IsPrefix(UnderFavorites, target) <=>
          Len(target) >= 3 /\ target[1] = "/" /\ target[2] = "favorites" /\ target[3] = "/"
    <2>1. /\ UnderFavorites \in Seq(S) /\ Len(UnderFavorites) = 3 /\ UnderFavorites[1] = "/"
          /\ UnderFavorites[2] = "favorites" /\ UnderFavorites[3] = "/"
          BY <1>2 DEF UnderFavorites
    <2>2. ASSUME IsPrefix(UnderFavorites, target)
          PROVE  Len(target) >= 3 /\ target[1] = "/" /\ target[2] = "favorites"
                   /\ target[3] = "/"
      <3>1. /\ Len(UnderFavorites) <= Len(target)
            /\ \A i \in 1..Len(UnderFavorites) : target[i] = UnderFavorites[i]
            BY <2>1, <2>2, PrefixAndRest
      <3>. QED BY <2>1, <3>1
    <2>3. ASSUME Len(target) >= 3, target[1] = "/", target[2] = "favorites",
                 target[3] = "/"
          PROVE  IsPrefix(UnderFavorites, target)
      <3>1. \A i \in 1..Len(UnderFavorites) : target[i] = UnderFavorites[i]
            BY <1>1, <2>1, <2>3
      <3>. QED BY <2>1, <2>3, <3>1, BeginsWith
    <2>. QED BY <2>2, <2>3
  <1>5. IsPrefix(UnderNotifications, target) <=>
          Len(target) >= 3 /\ target[1] = "/" /\ target[2] = "notifications"
            /\ target[3] = "/"
    <2>1. /\ UnderNotifications \in Seq(S) /\ Len(UnderNotifications) = 3
          /\ UnderNotifications[1] = "/"
          /\ UnderNotifications[2] = "notifications" /\ UnderNotifications[3] = "/"
          BY <1>2 DEF UnderNotifications
    <2>2. ASSUME IsPrefix(UnderNotifications, target)
          PROVE  Len(target) >= 3 /\ target[1] = "/" /\ target[2] = "notifications"
                   /\ target[3] = "/"
      <3>1. /\ Len(UnderNotifications) <= Len(target)
            /\ \A i \in 1..Len(UnderNotifications) : target[i] = UnderNotifications[i]
            BY <2>1, <2>2, PrefixAndRest
      <3>. QED BY <2>1, <3>1
    <2>3. ASSUME Len(target) >= 3, target[1] = "/", target[2] = "notifications",
                 target[3] = "/"
          PROVE  IsPrefix(UnderNotifications, target)
      <3>1. \A i \in 1..Len(UnderNotifications) : target[i] = UnderNotifications[i]
            BY <1>1, <2>1, <2>3
      <3>. QED BY <2>1, <2>3, <3>1, BeginsWith
    <2>. QED BY <2>2, <2>3
  <1>. QED BY <1>3, <1>4, <1>5

\* A target that a route matches, and besides it GetProfileByID at most, resolves to
\* that route and to no other.
LEMMA MatchedIsResolved ==
  ASSUME request.target \in Seq(Tokens), NEW id \in HandlerIds, Matches(id),
         \A other \in HandlerIds \ {id, "GetProfileByID"} : ~Matches(other)
  PROVE  Resolved = {id}
  <1>. DEFINE S == Tokens \cup PathWords
              target == request.target
              method == request.method
              path == Routes[id].path
              Exact == FindExact(target, method)
  <1>1. /\ target \in Seq(S) /\ path \in Seq(S) /\ PathNames \subseteq S
        /\ \A x \in HandlerIds : Routes[x].path \in Seq(S)
        BY PathsAreSequences DEF PathWords
  <1>2. /\ method = Routes[id].method /\ Len(target) = Len(path)
        /\ \A i \in 1..Len(path) :
             \/ target[i] = path[i]
             \/ i = Len(path) /\ ParamOf(id) # {} /\ target[i] # "/"
        BY DEF Matches
  <1>3. \A x \in Exact : x \in HandlerIds /\ Matches(x) /\ Routes[x].path = target
        BY Found DEF Matches
  <1>4. \A x \in Exact : x = id \/ x = "GetProfileByID"
        BY <1>3
  <1>5. CASE ParamOf(id) = {}
    <2>1. target = path
          BY <1>1, <1>2, <1>5, SeqEqual
    <2>2. id \in Exact
      <3>1. Routes[id] = Route(Routes[id].method, Routes[id].path)
            BY RoutesAre DEF Route, ProfileIds, ContactsIds, PrivacyIds, FavoritesIds,
                             NotificationsIds
      <3>. QED BY <2>1, <1>2, <3>1 DEF FindExact
    <2>3. path # UserById
      <3>1. id \notin {"DeleteContact", "AddFavorite", "RemoveFavorite", "GetProfileByID",
                       "GetChatNotifications", "UpdateChatNotifications"}
            BY <1>5 DEF ParamOf
      <3>2. path \in {InternalProfiles, Me, MyAvatar, MyPrivacy, Contacts, Favorites,
                      Notifications}
            BY <3>1, RoutesAre
               DEF Route, ProfileIds, ContactsIds, PrivacyIds, FavoritesIds, NotificationsIds
      <3>. QED BY <3>2, FixedPaths
    <2>4. "GetProfileByID" \notin Exact
          BY <1>3, <2>1, <2>3, RoutesAre DEF Route
    <2>5. Exact = {id}
          BY <1>4, <2>2, <2>4
    <2>. QED BY <2>5 DEF Resolved, ResolveRoute
  <1>6. CASE path \in {ContactById, FavoriteById, NotificationById}
    <2>1. Len(target) = 4 /\ target[1] = path[1] /\ target[2] = path[2] /\ target[3] = path[3]
      <3>1. Len(path) = 4
            BY <1>6, Placeholders
      <3>2. 1 \in 1..Len(path) /\ 2 \in 1..Len(path) /\ 3 \in 1..Len(path)
            /\ Len(path) \notin {1, 2, 3}
            BY <3>1
      <3>. QED BY <1>2, <3>1, <3>2
    <2>2. "GetProfileByID" \notin Exact
      <3>1. Routes["GetProfileByID"].path = UserById
            BY RoutesAre DEF Route
      <3>. QED BY <1>3, <2>1, <3>1, Placeholders
    <2>3. Exact # {} => Exact = {id}
          BY <1>4, <2>2
    <2>4. CASE path = ContactById
      <3>1. IsPrefix(UnderContacts, target)
            BY <1>1, <2>1, <2>4, Placeholders, UnderWhich
      <3>2. id = "DeleteContact" /\ method = "DELETE"
            BY <1>2, <2>4, RoutesAre, FixedPaths, PlaceholdersDiffer
               DEF Route, ProfileIds, ContactsIds, PrivacyIds, FavoritesIds, NotificationsIds
      <3>. QED BY <2>3, <3>1, <3>2, PlaceholderRoutes DEF Resolved, ResolveRoute
    <2>5. CASE path = FavoriteById
      <3>1. IsPrefix(UnderFavorites, target) /\ ~IsPrefix(UnderContacts, target)
            BY <1>1, <2>1, <2>5, Placeholders, UnderWhich
      <3>2. \/ id = "AddFavorite" /\ method = "POST"
            \/ id = "RemoveFavorite" /\ method = "DELETE"
            BY <1>2, <2>5, RoutesAre, FixedPaths, PlaceholdersDiffer
               DEF Route, ProfileIds, ContactsIds, PrivacyIds, FavoritesIds, NotificationsIds
      <3>. QED BY <2>3, <3>1, <3>2, PlaceholderRoutes DEF Resolved, ResolveRoute
    <2>6. CASE path = NotificationById
      <3>1. /\ IsPrefix(UnderNotifications, target)
            /\ ~IsPrefix(UnderContacts, target) /\ ~IsPrefix(UnderFavorites, target)
            BY <1>1, <2>1, <2>6, Placeholders, UnderWhich
      <3>2. \/ id = "GetChatNotifications" /\ method = "GET"
            \/ id = "UpdateChatNotifications" /\ method = "PUT"
            BY <1>2, <2>6, RoutesAre, FixedPaths, PlaceholdersDiffer
               DEF Route, ProfileIds, ContactsIds, PrivacyIds, FavoritesIds, NotificationsIds
      <3>. QED BY <2>3, <3>1, <3>2, PlaceholderRoutes DEF Resolved, ResolveRoute
    <2>. QED BY <1>6, <2>4, <2>5, <2>6
  <1>7. CASE id = "GetProfileByID"
    <2>1. path = UserById /\ method = "GET" /\ ParamOf("GetMyProfile") = {}
          /\ Routes["GetMyProfile"].path = Me /\ Routes["GetMyProfile"].method = "GET"
          /\ "GetMyProfile" \in HandlerIds
          BY <1>2, <1>7, RoutesAre DEF Route, ParamOf, ProfileIds
    <2>2. Len(target) = 2 /\ target[1] = "/" /\ target[2] # "/"
      <3>1. Len(path) = 2 /\ 1 \in 1..Len(path) /\ 2 \in 1..Len(path)
            BY <2>1, Placeholders
      <3>2. Len(path) # 1
            BY <3>1
      <3>. QED BY <1>2, <2>1, <3>1, <3>2, Placeholders
    <2>3. target # Me
      <3>1. SUFFICES ASSUME target = Me PROVE FALSE
            OBVIOUS
      <3>2. Matches("GetMyProfile")
            BY <2>1, <3>1 DEF Matches
      <3>. QED BY <1>7, <2>1, <3>2
    <2>4. /\ ~IsPrefix(UnderContacts, target) /\ ~IsPrefix(UnderFavorites, target)
          /\ ~IsPrefix(UnderNotifications, target)
          BY <1>1, <2>2, UnderWhich
    <2>5. OneSegment(target)
      <3>1. IsPrefix(Slash, target)
        <4>1. "/" \in S
              BY <1>1 DEF PathNames
        <4>2. Slash \in Seq(S) /\ Len(Slash) = 1 /\ Slash[1] = "/"
              BY <4>1 DEF Slash
        <4>3. \A i \in 1..Len(Slash) : target[i] = Slash[i]
              BY <4>2, <2>2
        <4>. QED BY <1>1, <2>2, <4>2, <4>3, BeginsWith
      <3>2. \A i \in 2..Len(target) : target[i] # "/"
            BY <2>2
      <3>. QED BY <3>1, <3>2 DEF OneSegment
    <2>6. Exact # {} => Exact = {id}
          BY <1>4, <1>7
    <2>7. FindExact(UserById, method) = {id}
          BY <2>1, <1>7, PlaceholderRoutes
    <2>. QED BY <2>3, <2>4, <2>5, <2>6, <2>7 DEF Resolved, ResolveRoute
  <1>8. ParamOf(id) # {} =>
          path \in {ContactById, FavoriteById, NotificationById} \/ id = "GetProfileByID"
        BY RoutesAre DEF ParamOf, Route
  <1>. QED BY <1>5, <1>6, <1>7, <1>8

\* A request that is answered without an operation could have none: it is an
\* OPTIONS, resolves to nothing or is not admitted.
Undecided ==
  phase = "done" /\ op = None =>
    request \in Arriving /\ (request.method = "OPTIONS" \/ Resolved = {} \/ ~Admitted)

LEMMA UndecidedInductive == Inv /\ Undecided /\ [Next]_vars => Undecided'
  <1>. SUFFICES ASSUME Inv, Undecided, [Next]_vars PROVE Undecided'
       OBVIOUS
  <1>1. ASSUME NEW status, Respond(status)
        PROVE  /\ UNCHANGED <<request, op>>
               /\ (request.method = "OPTIONS" \/ Resolved = {} \/ ~Admitted)' =
                  (request.method = "OPTIONS" \/ Resolved = {} \/ ~Admitted)
        BY <1>1 DEF Respond, context, Resolved, Admitted, CreatesProfile
  <1>2. CASE AnswerOptions \/ RouteNotFound \/ MissingUser
    <2>1. /\ phase = "received"
          /\ request.method = "OPTIONS" \/ Resolved = {} \/ ~Admitted
          /\ \E status : Respond(status)
          BY <1>2 DEF AnswerOptions, RouteNotFound, MissingUser
    <2>. QED BY <1>1, <2>1 DEF Undecided, Inv
  <1>3. CASE DispatchToHandler
    <2>1. phase = "bound" /\ Bound /\ route \in HandlerIds
          BY <1>3, ResolvedIsHandler DEF DispatchToHandler, Inv, Bound, Resolved
    <2>2. Dispatch(route, request.target, request.method) = {route}
          BY <2>1, RouteKnown DEF Bound, Resolved
    <2>3. phase' = "dispatched"
          BY <1>3, <2>2 DEF DispatchToHandler
    <2>. QED BY <2>3 DEF Undecided
  <1>4. CASE \/ ParamMissing \/ HandleWithoutBody \/ HandleCreateProfile
             \/ HandleUpdateProfile \/ HandleUpdatePrivacy \/ HandleAddContact
             \/ HandleUploadAvatar \/ Decode \/ FinishUpload \/ HandleUpdateNotifications
    <2>1. op # None
          BY <1>4, MarkAssumption
             DEF ParamMissing, HandleWithoutBody, HandleCreateProfile, HandleUpdateProfile,
                 HandleUpdatePrivacy, HandleAddContact, HandleUploadAvatar, Decode,
                 FinishUpload, HandleUpdateNotifications, Runs, Inv
    <2>2. op' = op
          BY <1>4 DEF ParamMissing, HandleWithoutBody, HandleCreateProfile,
                 HandleUpdateProfile,
                 HandleUpdatePrivacy, HandleAddContact, HandleUploadAvatar, Decode,
                 FinishUpload, HandleUpdateNotifications, HandOver, HandOverBody, Respond
    <2>. QED BY <2>1, <2>2 DEF Undecided
  <1>5. CASE Receive \/ BindHandler \/ Done
        BY <1>5 DEF Receive, BindHandler, Done, Undecided
  <1>6. CASE UNCHANGED vars
        BY <1>6 DEF vars, context, Undecided, Resolved, Admitted, CreatesProfile
  <1>. QED BY <1>2, <1>3, <1>4, <1>5, <1>6 DEF Next, Step

\* MatchedIsServed: every request that a route of the table matches, and that is
\* admitted, reaches the operation of that route.
THEOREM EveryRouteIsReached == Spec => []MatchedIsServed
  <1>1. ASSUME Inv, Undecided, phase = "done", Admitted, NEW id \in HandlerIds, Matches(id),
               \A other \in HandlerIds \ {id, "GetProfileByID"} : ~Matches(other)
        PROVE  op = id
    <2>1. request \in Arriving
          BY <1>1 DEF Inv, Undecided, Bound
    <2>2. Resolved = {id}
          BY <1>1, <2>1, MatchedIsResolved, ArrivingAssumption
    <2>3. request.method # "OPTIONS"
          BY <1>1, PathsAreSequences DEF Matches
    <2>4. op # None
          BY <1>1, <2>2, <2>3 DEF Undecided
    <2>. QED BY <1>1, <2>2, <2>4 DEF Inv, Bound
  <1>2. Inv /\ Undecided => MatchedIsServed
        BY <1>1 DEF MatchedIsServed
  <1>3. Init => Undecided
        BY DEF Init, Undecided
  <1>. QED BY <1>2, <1>3, SpecInv, UndecidedInductive, PTL DEF Spec

-------------------------------------------------------------------------------
\* The muted_until of a request that was handed on is what its text was read as.
TimeRead ==
  /\ phase # "done" => until = None
  /\ until # None =>
       /\ request \in Arriving
       /\ \E t \in TimeAsked : \E clock \in GetTime(t) : until = StoredAs(MkTime(clock))

LEMMA TimeReadInductive == Inv /\ TimeRead /\ [Next]_vars => TimeRead'
  <1>. SUFFICES ASSUME Inv, TimeRead, [Next]_vars PROVE TimeRead'
       OBVIOUS
  <1>1. UNCHANGED request => TimeAsked' = TimeAsked
        BY DEF TimeAsked, Is, Has, Body
  <1>2. UNCHANGED <<request, until>> /\ (phase' = "done" \/ phase # "done") => TimeRead'
        BY <1>1 DEF TimeRead
  <1>3. CASE Receive
        BY <1>3 DEF Receive, TimeRead
  <1>4. CASE Done
        BY <1>4 DEF Done, TimeRead
  <1>5. CASE UNCHANGED vars
    <2>1. UNCHANGED <<phase, request, until>>
          BY <1>5 DEF vars, context
    <2>. QED BY <1>1, <2>1 DEF TimeRead
  <1>6. CASE AnswerOptions \/ RouteNotFound \/ MissingUser \/ ParamMissing
        BY <1>2, <1>6 DEF AnswerOptions, RouteNotFound, MissingUser, ParamMissing, Respond,
                          context
  <1>7. CASE BindHandler \/ DispatchToHandler
        BY <1>2, <1>7 DEF BindHandler, DispatchToHandler, Respond, context
  <1>8. CASE \/ HandleWithoutBody \/ HandleCreateProfile \/ HandleUpdateProfile
             \/ HandleUpdatePrivacy \/ HandleAddContact \/ FinishUpload
    <2>1. UNCHANGED until /\ \E r : HandOver(r)
          BY <1>8 DEF HandleWithoutBody, HandleCreateProfile, HandleUpdateProfile,
                      HandleUpdatePrivacy, HandleAddContact, FinishUpload, HandOverBody
    <2>. QED BY <1>2, <2>1 DEF HandOver, context
  <1>9. CASE HandleUploadAvatar \/ Decode
        BY <1>2, <1>9 DEF HandleUploadAvatar, Decode, Runs, HandOverBody, HandOver, context
  <1>10. CASE HandleUpdateNotifications
    <2>1. /\ phase = "dispatched" /\ phase' = "done" /\ UNCHANGED request
          BY <1>10 DEF HandleUpdateNotifications, Runs, HandOverBody, HandOver, context
    <2>2. request \in Arriving
          BY <2>1 DEF Inv, Bound
    <2>3. \/ until' = None \/ until' = until
          \/ \E t \in TimeAsked : \E clock \in GetTime(t) : until' = StoredAs(MkTime(clock))
          BY <1>10 DEF HandleUpdateNotifications
    <2>4. until = None
          BY <2>1 DEF TimeRead
    <2>. QED BY <1>1, <2>1, <2>2, <2>3, <2>4 DEF TimeRead
  <1>. QED BY <1>3, <1>4, <1>5, <1>6, <1>7, <1>8, <1>9, <1>10 DEF Next, Step

\* AcceptedTimeIsKept: a time in RFC 3339 that is not refused is stored as the
\* instant it names, where process and session keep UTC.
THEOREM TimesAreKept == Spec => []AcceptedTimeIsKept
  <1>1. ASSUME TimeRead, ProcessZone = 0, SessionZone = 0, until # None,
               NEW t \in TimeAsked, Rfc3339(t)
        PROVE  until = Named(t)
    <2>1. PICK clock \in GetTime(t) : until = StoredAs(MkTime(clock))
          BY <1>1 DEF TimeRead, TimeAsked
    <2>2. clock = t.clock /\ t.suffix = "Z"
          BY <1>1, <2>1 DEF GetTime, Rfc3339
    <2>3. t.clock \in Int /\ t.ahead = 0
          BY <1>1, <2>2, TimesAssumption DEF TimeRead, TimeAsked, Is, Has, Body
    <2>. QED BY <1>1, <2>1, <2>2, <2>3 DEF StoredAs, MkTime, Named
  <1>2. TimeRead => AcceptedTimeIsKept
        BY <1>1 DEF AcceptedTimeIsKept
  <1>3. Init => TimeRead
        BY DEF Init, TimeRead
  <1>. QED BY <1>2, <1>3, SpecInv, TimeReadInductive, PTL DEF Spec
===============================================================================
