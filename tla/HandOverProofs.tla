---------------------------- MODULE HandOverProofs ----------------------------
(***************************************************************************)
(* Theorems about FrontEnd: types, the decoder, and that what a handler is *)
(* handed on with is a request of ProfileService, for any targets, bodies  *)
(* and texts.                                                              *)
(***************************************************************************)
EXTENDS FrontEndProofs, Base64DecoderProofs

\* What a step may change, and where.
Statuses == {204, 400, 401, 404}

Binds     == request \in Arriving /\ params' = ExtractPathParams(request.target)
SetsUntil ==
  \/ until' = None
  \/ request \in Arriving /\ \E t \in TimeAsked : \E clock \in GetTime(t) :
                               until' = StoredAs(MkTime(clock))
Decodes   == DecodeSymbol \/ HandleUploadAvatar

LEMMA Effects ==
  ASSUME Inv, [Next]_vars
  PROVE  \/ Receive
         \/ Done
         \/ /\ request' = request
            /\ route' = route \/ route' \in HandlerIds
            /\ op' = op \/ op' \in HandlerIds
            /\ params' = params \/ Binds
            /\ response' = response \/ response' \in Statuses
            /\ until' = until \/ SetsUntil
            /\ UNCHANGED decoder \/ Decodes
  <1>1. CASE UNCHANGED vars
        BY <1>1 DEF vars, context
  <1>2. CASE AnswerOptions \/ RouteNotFound \/ MissingUser \/ ParamMissing
    <2>1. \E status \in Statuses : Respond(status)
          BY <1>2 DEF AnswerOptions, RouteNotFound, MissingUser, ParamMissing, Statuses
    <2>. QED BY <2>1 DEF Respond, context
  <1>3. CASE BindHandler
        BY <1>3, ResolvedIsHandler DEF BindHandler, Resolved, Inv, Binds
  <1>4. CASE DispatchToHandler
    <2>1. phase = "bound" /\ Bound /\ route \in HandlerIds
          BY <1>4, ResolvedIsHandler DEF DispatchToHandler, Inv, Bound, Resolved
    <2>2. Dispatch(route, request.target, request.method) = {route}
          BY <2>1, RouteKnown DEF Bound, Resolved
    <2>. QED BY <1>4, <2>1, <2>2 DEF DispatchToHandler, context
  <1>5. CASE \/ HandleWithoutBody \/ HandleCreateProfile \/ HandleUpdateProfile
             \/ HandleUpdatePrivacy \/ HandleAddContact \/ FinishUpload
    <2>1. (\E r : HandOver(r)) /\ UNCHANGED <<until, decoder>>
          BY <1>5 DEF HandleWithoutBody, HandleCreateProfile, HandleUpdateProfile,
                      HandleUpdatePrivacy, HandleAddContact, FinishUpload, HandOverBody
    <2>. QED BY <2>1 DEF HandOver, context
  <1>6. CASE HandleUploadAvatar
    <2>1. /\ (\E r : HandOver(r)) \/ UNCHANGED <<context, op, response, handed>>
          /\ UNCHANGED until
          BY <1>6 DEF HandleUploadAvatar, HandOverBody
    <2>. QED BY <1>6, <2>1 DEF HandOver, context, Decodes
  <1>7. CASE Decode
        BY <1>7 DEF Decode, Decodes, context
  <1>8. CASE HandleUpdateNotifications
    <2>1. (\E r : HandOver(r)) /\ UNCHANGED decoder /\ (until' = until \/ SetsUntil)
      <3>1. request \in Arriving
            BY <1>8 DEF HandleUpdateNotifications, Runs, Inv, Bound
      <3>. QED BY <1>8, <3>1 DEF HandleUpdateNotifications, HandOverBody, SetsUntil
    <2>. QED BY <2>1 DEF HandOver, context
  <1>. QED BY <1>1, <1>2, <1>3, <1>4, <1>5, <1>6, <1>7, <1>8 DEF Next, Step

-------------------------------------------------------------------------------
(***************************************************************************)
(* Types                                                                   *)
(***************************************************************************)
LEMMA ParamsAre ==
  ASSUME NEW S, NEW target \in Seq(S)
  PROVE  LET found == ExtractPathParams(target)
         IN  /\ DOMAIN found \subseteq {"user_id", "contact_id", "chat_id"}
             /\ \A name \in DOMAIN found : found[name] \in Seq(S)
  <1>1. ASSUME NEW prefix, Len(prefix) \in Nat
        PROVE  After(prefix, target) \in Seq(S)
    <2>. DEFINE m == Len(prefix) + 1
                n == Len(target)
    <2>1. m \in Int /\ n \in Int /\ \A i \in m..n : target[i] \in S
          BY <1>1
    <2>. HIDE DEF m, n
    <2>2. SubSeq(target, m, n) \in Seq(S)
          BY <2>1, SubSeqProperties
    <2>. QED BY <2>2 DEF After, m, n
  <1>2. /\ After(UnderContacts, target) \in Seq(S) /\ After(UnderFavorites, target) \in Seq(S)
        /\ After(UnderNotifications, target) \in Seq(S) /\ After(Slash, target) \in Seq(S)
    <2>1. /\ Len(UnderContacts) = 3 /\ Len(UnderFavorites) = 3
          /\ Len(UnderNotifications) = 3 /\ Len(Slash) = 1
          BY DEF UnderContacts, UnderFavorites, UnderNotifications, Slash
    <2>. QED BY <1>1, <2>1
  <1>3. \A n, v : DOMAIN Param(n, v) = {n} /\ Param(n, v)[n] = v
        BY DEF Param
  <1>4. DOMAIN NoParams = {}
        BY DEF NoParams
  <1>5. \/ ExtractPathParams(target) = NoParams
        \/ \E n \in {"user_id", "contact_id", "chat_id"}, v \in Seq(S) :
             ExtractPathParams(target) = Param(n, v)
        BY <1>2 DEF ExtractPathParams
  <1>6. CASE ExtractPathParams(target) = NoParams
        BY <1>4, <1>6
  <1>7. ASSUME NEW n \in {"user_id", "contact_id", "chat_id"}, NEW v \in Seq(S),
               ExtractPathParams(target) = Param(n, v)
        PROVE  /\ DOMAIN ExtractPathParams(target) = {n}
               /\ ExtractPathParams(target)[n] \in Seq(S)
        BY <1>3, <1>7
  <1>. QED BY <1>5, <1>6, <1>7

Typed ==
  /\ request # None => request \in Arriving
  /\ route \in HandlerIds \cup {None} /\ op \in HandlerIds \cup {None}
  /\ DOMAIN params \subseteq {"user_id", "contact_id", "chat_id"}
  /\ \A name \in DOMAIN params : params[name] \in Seq(Tokens)
  /\ response \in Statuses \cup {None}
  /\ until \in Int \cup {None}
  /\ DecoderInv

LEMMA TypedInitial == Init => Typed
  <1> SUFFICES ASSUME Init PROVE Typed
      OBVIOUS
  <1>1. DecoderInv
        BY DecoderInitial DEF Init
  <1>2. DOMAIN NoParams = {}
        BY DEF NoParams
  <1>. QED BY <1>1, <1>2 DEF Init, Typed

LEMMA TypedInductive == Inv /\ Typed /\ [Next]_vars => Typed'
  <1> SUFFICES ASSUME Inv, Typed, [Next]_vars PROVE Typed'
      OBVIOUS
  <1>1. CASE Receive
    <2>1. DecoderInv'
          BY <1>1, DecoderRests DEF Receive, Typed
    <2>. QED BY <1>1, <2>1 DEF Receive, Typed
  <1>2. CASE Done
    <2>1. DecoderInv'
      <3>1. StartDecoding(<<>>) /\ <<>> \in Seq(Symbols)
            BY <1>2 DEF Done
      <3>. QED BY <3>1, DecoderStarts
    <2>2. DOMAIN NoParams = {}
          BY DEF NoParams
    <2>. QED BY <1>2, <2>1, <2>2 DEF Done, Typed
  <1>3. CASE /\ request' = request
             /\ route' = route \/ route' \in HandlerIds
             /\ op' = op \/ op' \in HandlerIds
             /\ params' = params \/ Binds
             /\ response' = response \/ response' \in Statuses
             /\ until' = until \/ SetsUntil
             /\ UNCHANGED decoder \/ Decodes
    <2>1. DecoderInv'
      <3>1. CASE UNCHANGED decoder \/ DecodeSymbol
            BY <3>1, DecoderRests, DecoderSteps DEF Typed
      <3>2. CASE HandleUploadAvatar
        <4>1. UNCHANGED decoder \/ (Is("image_data", "base64")
                                      /\ StartDecoding(Body.fields["image_data"].is))
              BY <3>2 DEF HandleUploadAvatar
        <4>2. request \in Arriving
              BY <3>2 DEF HandleUploadAvatar, Runs, Inv, Bound
        <4>3. Is("image_data", "base64") => Body.fields["image_data"].is \in Seq(Symbols)
              BY <4>2, BodiesAssumption DEF Is, Has, Body
        <4>. QED BY <4>1, <4>3, DecoderStarts, DecoderRests DEF Typed
      <3>. QED BY <1>3, <3>1, <3>2 DEF Decodes
    <2>2. /\ DOMAIN params' \subseteq {"user_id", "contact_id", "chat_id"}
          /\ \A name \in DOMAIN params' : params'[name] \in Seq(Tokens)
          BY <1>3, ParamsAre, ArrivingAssumption DEF Typed, Binds
    <2>3. until' \in Int \cup {None}
      <3>1. CASE request \in Arriving /\ \E t \in TimeAsked : \E clock \in GetTime(t) :
                   until' = StoredAs(MkTime(clock))
        <4>1. PICK t \in TimeAsked : \E clock \in GetTime(t) :
                                       until' = StoredAs(MkTime(clock))
              BY <3>1
        <4>2. until' = StoredAs(MkTime(t.clock))
              BY <4>1 DEF GetTime
        <4>3. t.clock \in Int
              BY <3>1, TimesAssumption DEF TimeAsked, Is, Has, Body
        <4>. QED BY <4>2, <4>3, ZonesAssumption DEF StoredAs, MkTime
      <3>. QED BY <1>3, <3>1 DEF Typed, SetsUntil
    <2>. QED BY <1>3, <2>1, <2>2, <2>3 DEF Typed
  <1>. QED BY <1>1, <1>2, <1>3, Effects

LEMMA SpecTyped == Spec => []Typed
  BY SpecInv, TypedInitial, TypedInductive, PTL DEF Spec

\* TypeOK: types of the request, its context, the decoder and what comes of them.
THEOREM Types == Spec => []TypeOK
  <1>1. Inv /\ Typed => TypeOK
        BY ArrivingAssumption DEF Inv, Typed, TypeOK, Statuses, DecoderInv
  <1>. QED BY <1>1, SpecInv, SpecTyped, PTL

\* OverflowIsHarmless: every byte is eight bits of the digits behind two zero bits,
\* however long the text is and however often val has lost what it holds.
THEOREM NothingIsLost == Spec => []OverflowIsHarmless
  <1>1. Typed => OverflowIsHarmless
        BY DEF Typed, DecoderInv, OverflowIsHarmless
  <1>. QED BY <1>1, SpecTyped, PTL

-------------------------------------------------------------------------------
(***************************************************************************)
(* What is handed on                                                       *)
(***************************************************************************)
\* HandsOverRequests of one request: it is of HttpRequests, whoever is named by a
\* POST /internal/profiles that names none.
IsHttpRequest(r, id) ==
  \E u \in Users :
    [r EXCEPT !.user = IF id = "CreateProfile" /\ r.body # "ok" THEN u ELSE @]
      \in HttpRequests

\* The parameters an operation has found are ids.
LEMMA PlainIds ==
  ASSUME IdsAreIds
  PROVE  /\ op = "GetProfileByID" => Plain(params["user_id"]) \in Users
         /\ op = "DeleteContact" => Plain(params["contact_id"]) \in Users
         /\ op \in {"AddFavorite", "RemoveFavorite", "GetChatNotifications",
                    "UpdateChatNotifications"} => Plain(params["chat_id"]) \in ChatIds
  <1>1. \A u : Plain(<<u>>) = u
        BY DEF Plain
  <1>2. Plain(<<>>) = Empty
        BY DEF Plain
  <1>3. ASSUME op = "GetProfileByID" PROVE params["user_id"] \in {<<u>> : u \in Users}
    <2>1. ParamOf(op) = {"user_id"}
          BY <1>3 DEF ParamOf
    <2>. QED BY <2>1 DEF IdsAreIds
  <1>4. ASSUME op = "DeleteContact" PROVE params["contact_id"] \in {<<u>> : u \in Users}
    <2>1. ParamOf(op) = {"contact_id"}
          BY <1>4 DEF ParamOf
    <2>. QED BY <2>1 DEF IdsAreIds
  <1>5. ASSUME op \in {"AddFavorite", "RemoveFavorite", "GetChatNotifications",
                       "UpdateChatNotifications"}
        PROVE  params["chat_id"] \in {<<k>> : k \in Chats} \cup {<<>>}
    <2>1. ParamOf(op) = {"chat_id"}
          BY <1>5 DEF ParamOf
    <2>. QED BY <2>1 DEF IdsAreIds
  <1>. QED BY <1>1, <1>2, <1>3, <1>4, <1>5 DEF ChatIds

\* What a body holds under a field of a kind.
LEMMA FieldsAre ==
  ASSUME request \in Arriving, NEW f, Has(f)
  PROVE  /\ Is(f, "string") /\ f \in PatchColumns \cup {"alias"} =>
              ValueOf(f, Empty) \in Texts /\ ValueOf(f, Null) \in Texts
         /\ Is(f, "string") /\ f \in PrivacyFields => ValueOf(f, "everyone") \in Visibilities
  BY BodiesAssumption DEF Is, Has, Body, ValueOf

\* A request of HttpRequests is one as it is, but for a CreateProfile with a bad body.
LEMMA AsItIs ==
  ASSUME NEW r \in HttpRequests, NEW id, id # "CreateProfile" \/ r.body = "ok"
  PROVE  IsHttpRequest(r, id)
  <1>1. [r EXCEPT !.user = r.user] = r
        BY DEF HttpRequests, Reads, Writes, BadRequests
  <1>2. PICK u \in Users : TRUE
        BY NoUserAssumption
  <1>3. [r EXCEPT !.user = IF id = "CreateProfile" /\ r.body # "ok" THEN u ELSE @] = r
        BY <1>1
  <1>. QED BY <1>2, <1>3 DEF IsHttpRequest

\* A body no handler can use, in the name of anybody.
LEMMA BadBody ==
  ASSUME NEW id, NEW user, NEW body, id = "CreateProfile" \/ user \in Users,
         \A u \in Users : [op |-> id, user |-> u, body |-> body] \in BadRequests
  PROVE  IsHttpRequest([op |-> id, user |-> user, body |-> body], id)
  <1>1. CASE id = "CreateProfile" /\ body # "ok"
    <2>1. PICK u \in Users : TRUE
          BY NoUserAssumption
    <2>2. [[op |-> id, user |-> user, body |-> body] EXCEPT !.user = u] =
            [op |-> id, user |-> u, body |-> body]
          OBVIOUS
    <2>. QED BY <1>1, <2>1, <2>2 DEF IsHttpRequest, HttpRequests
  <1>2. CASE id # "CreateProfile" \/ body = "ok"
    <2>1. PICK u \in Users : id # "CreateProfile" => u = user
          BY NoUserAssumption
    <2>2. body \in {"malformed", "incomplete", "illtyped"}
          BY <2>1 DEF BadRequests
    <2>3. id # "CreateProfile" /\ user \in Users
          BY <1>2, <2>2
    <2>. QED BY <2>3, AsItIs DEF HttpRequests
  <1>. QED BY <1>1, <1>2

LEMMA WithoutBodyHandsOver ==
  ASSUME IdsAreIds, HandleWithoutBody
  PROVE  IsHttpRequest(handed', op)
  <1>1. CASE \E id \in ReadsNoBody :
               Runs(id) /\ HandOver([op |-> id, user |-> request.user])
    <2>1. PICK id \in ReadsNoBody :
            op = id /\ handed' = [op |-> id, user |-> request.user]
          BY <1>1 DEF Runs, HandOver
    <2>2. id # "CreateProfile" /\ request.user \in Users
          BY <2>1 DEF ReadsNoBody, IdsAreIds
    <2>3. handed' \in HttpRequests
          BY <2>1, <2>2 DEF ReadsNoBody, HttpRequests, Reads, Writes
    <2>. QED BY <2>1, <2>2, <2>3, AsItIs
  <1>2. CASE /\ Runs("GetProfileByID")
             /\ HandOver([op |-> op, user |-> request.user,
                          target |-> Plain(params["user_id"])])
    <2>1. /\ op = "GetProfileByID"
          /\ handed' = [op |-> op, user |-> request.user, target |-> Plain(params["user_id"])]
          BY <1>2 DEF Runs, HandOver
    <2>2. handed' \in HttpRequests
          BY <2>1, PlainIds DEF IdsAreIds, HttpRequests, Reads
    <2>. QED BY <2>1, <2>2, AsItIs
  <1>3. CASE /\ Runs("DeleteContact")
             /\ HandOver([op |-> op, user |-> request.user,
                          contact |-> Plain(params["contact_id"])])
    <2>1. /\ op = "DeleteContact"
          /\ handed' = [op |-> op, user |-> request.user,
                        contact |-> Plain(params["contact_id"])]
          BY <1>3 DEF Runs, HandOver
    <2>2. handed' \in HttpRequests
          BY <2>1, PlainIds DEF IdsAreIds, HttpRequests, Writes
    <2>. QED BY <2>1, <2>2, AsItIs
  <1>4. CASE \E id \in {"AddFavorite", "RemoveFavorite", "GetChatNotifications"} :
               /\ Runs(id)
               /\ HandOver([op |-> id, user |-> request.user,
                            chat |-> Plain(params["chat_id"])])
    <2>1. PICK id \in {"AddFavorite", "RemoveFavorite", "GetChatNotifications"} :
            op = id /\ handed' = [op |-> id, user |-> request.user,
                                  chat |-> Plain(params["chat_id"])]
          BY <1>4 DEF Runs, HandOver
    <2>2. request.user \in Users /\ Plain(params["chat_id"]) \in ChatIds
          BY <2>1, PlainIds DEF IdsAreIds
    <2>3. handed' \in HttpRequests
          BY <2>1, <2>2 DEF HttpRequests, Reads, Writes
    <2>. QED BY <2>1, <2>3, AsItIs
  <1>. QED BY <1>1, <1>2, <1>3, <1>4 DEF HandleWithoutBody

LEMMA BadBodies ==
  ASSUME NEW u \in Users
  PROVE  /\ \A id \in {"CreateProfile", "UploadAvatar", "AddContact"} :
              \A body \in {"malformed", "incomplete"} :
                [op |-> id, user |-> u, body |-> body] \in BadRequests
         /\ \A body \in {"malformed", "illtyped"} :
              [op |-> "UpdateProfile", user |-> u, body |-> body] \in BadRequests
         /\ \A id \in {"UpdatePrivacy", "UpdateNotifications", "UpdateChatNotifications"} :
              [op |-> id, user |-> u, body |-> "malformed"] \in BadRequests
  BY DEF BadRequests

LEMMA CreateHandsOver ==
  ASSUME IdsAreIds, HandleCreateProfile
  PROVE  IsHttpRequest(handed', op)
  <1>1. op = "CreateProfile"
        BY DEF HandleCreateProfile, Runs
  <1>2. CASE HandOverBody("malformed") \/ HandOverBody("incomplete")
    <2>1. PICK body \in {"malformed", "incomplete"} :
            handed' = [op |-> op, user |-> request.user, body |-> body]
          BY <1>2 DEF HandOverBody, HandOver
    <2>. QED BY <1>1, <2>1, BadBody, BadBodies
  <1>3. CASE /\ ~ValueThrows("user_id", "string") /\ ValueOf("user_id", Empty) # Empty
             /\ HandOver([op |-> op, user |-> ValueOf("user_id", Empty), body |-> "ok"])
    <2>1. Is("user_id", "string")
          BY <1>3 DEF ValueThrows, GetThrows, ValueOf
    <2>2. ValueOf("user_id", Empty) \in Users
          BY <1>3, <2>1 DEF IdsAreIds
    <2>3. handed' = [op |-> op, user |-> ValueOf("user_id", Empty), body |-> "ok"]
          BY <1>3 DEF HandOver
    <2>4. handed' \in HttpRequests /\ handed'.body = "ok"
          BY <1>1, <2>2, <2>3 DEF HttpRequests, Writes
    <2>. QED BY <2>4, AsItIs
  <1>. QED BY <1>2, <1>3 DEF HandleCreateProfile

LEMMA UpdateProfileHandsOver ==
  ASSUME Inv, IdsAreIds, HandleUpdateProfile
  PROVE  IsHttpRequest(handed', op)
  <1>1. op = "UpdateProfile" /\ request.user \in Users /\ request \in Arriving
        BY DEF HandleUpdateProfile, Runs, IdsAreIds, Inv, Bound
  <1>2. CASE HandOverBody("malformed") \/ HandOverBody("illtyped")
    <2>1. PICK body \in {"malformed", "illtyped"} :
            handed' = [op |-> op, user |-> request.user, body |-> body]
          BY <1>2 DEF HandOverBody, HandOver
    <2>. QED BY <1>1, <2>1, BadBody, BadBodies
  <1> DEFINE named == {f \in PatchColumns : Has(f)}
             patch == [f \in named |-> ValueOf(f, Empty)]
  <1>3. CASE /\ ~\E f \in named : GetThrows(f, "string")
             /\ HandOver([op |-> op, user |-> request.user, body |-> "ok", patch |-> patch])
    <2>1. \A f \in named : ValueOf(f, Empty) \in Texts
          BY <1>1, <1>3, FieldsAre DEF GetThrows
    <2>2. patch \in Patches
      <3>1. named \in SUBSET PatchColumns /\ patch \in [named -> Texts]
            BY <2>1
      <3>. QED BY <3>1 DEF Patches
    <2> HIDE DEF patch
    <2>3. handed' = [op |-> op, user |-> request.user, body |-> "ok", patch |-> patch]
          BY <1>3 DEF HandOver
    <2>4. handed' \in HttpRequests
          BY <1>1, <2>2, <2>3 DEF HttpRequests, Writes
    <2>. QED BY <1>1, <2>4, AsItIs
  <1>. QED BY <1>2, <1>3 DEF HandleUpdateProfile

LEMMA UpdatePrivacyHandsOver ==
  ASSUME Inv, IdsAreIds, HandleUpdatePrivacy
  PROVE  IsHttpRequest(handed', op)
  <1>1. op = "UpdatePrivacy" /\ request.user \in Users /\ request \in Arriving
        BY DEF HandleUpdatePrivacy, Runs, IdsAreIds, Inv, Bound
  <1>2. CASE HandOverBody("malformed")
    <2>1. handed' = [op |-> op, user |-> request.user, body |-> "malformed"]
          BY <1>2 DEF HandOverBody, HandOver
    <2>. QED BY <1>1, <2>1, BadBody, BadBodies
  <1> DEFINE named == {f \in PrivacyFields : Has(f)}
             settings == [f \in named |-> ValueOf(f, "everyone")]
  <1>3. CASE /\ ~\E f \in PrivacyFields : ValueThrows(f, "string")
             /\ HandOver([op |-> op, user |-> request.user, body |-> "ok",
                          settings |-> settings])
    <2>1. \A f \in named : ValueOf(f, "everyone") \in Visibilities
          BY <1>1, <1>3, FieldsAre DEF ValueThrows, GetThrows
    <2>2. settings \in SettingsAsked
      <3>1. named \in SUBSET PrivacyFields /\ settings \in [named -> Visibilities]
            BY <2>1
      <3>. QED BY <3>1 DEF SettingsAsked
    <2> HIDE DEF settings
    <2>3. handed' = [op |-> op, user |-> request.user, body |-> "ok", settings |-> settings]
          BY <1>3 DEF HandOver
    <2>4. handed' \in HttpRequests
          BY <1>1, <2>2, <2>3 DEF HttpRequests, Writes
    <2>. QED BY <1>1, <2>4, AsItIs
  <1>. QED BY <1>2, <1>3 DEF HandleUpdatePrivacy

LEMMA AddContactHandsOver ==
  ASSUME Inv, IdsAreIds, HandleAddContact
  PROVE  IsHttpRequest(handed', op)
  <1>1. op = "AddContact" /\ request.user \in Users /\ request \in Arriving
        BY DEF HandleAddContact, Runs, IdsAreIds, Inv, Bound
  <1>2. CASE HandOverBody("malformed") \/ HandOverBody("incomplete")
    <2>1. PICK body \in {"malformed", "incomplete"} :
            handed' = [op |-> op, user |-> request.user, body |-> body]
          BY <1>2 DEF HandOverBody, HandOver
    <2>. QED BY <1>1, <2>1, BadBody, BadBodies
  <1>3. CASE /\ ~ValueThrows("contact_id", "string") /\ ValueOf("contact_id", Empty) # Empty
             /\ ~GetThrows("alias", "string")
             /\ HandOver([op |-> op, user |-> request.user, body |-> "ok",
                          contact |-> ValueOf("contact_id", Empty),
                          alias |-> ValueOf("alias", Null)])
    <2>1. Is("contact_id", "string")
          BY <1>3 DEF ValueThrows, GetThrows, ValueOf
    <2>2. ValueOf("contact_id", Empty) \in Users
          BY <1>3, <2>1 DEF IdsAreIds
    <2>3. ValueOf("alias", Null) \in Texts \cup {Null}
      <3>1. CASE Has("alias")
            BY <1>1, <1>3, <3>1, FieldsAre DEF GetThrows
      <3>2. CASE ~Has("alias")
            BY <3>2 DEF ValueOf
      <3>. QED BY <3>1, <3>2
    <2>4. handed' = [op |-> op, user |-> request.user, body |-> "ok",
                     contact |-> ValueOf("contact_id", Empty),
                     alias |-> ValueOf("alias", Null)]
          BY <1>3 DEF HandOver
    <2>5. handed' \in HttpRequests
          BY <1>1, <2>2, <2>3, <2>4 DEF HttpRequests, Writes
    <2>. QED BY <1>1, <2>5, AsItIs
  <1>. QED BY <1>2, <1>3 DEF HandleAddContact

LEMMA UploadHandsOver ==
  ASSUME Inv, IdsAreIds, HandleUploadAvatar \/ FinishUpload
  PROVE  handed' = None \/ IsHttpRequest(handed', op)
  <1>1. op = "UploadAvatar" /\ request.user \in Users
    <2>1. op = "UploadAvatar"
          BY DEF HandleUploadAvatar, Runs, FinishUpload, Inv
    <2>. QED BY <2>1 DEF IdsAreIds
  <1>2. CASE HandOverBody("malformed") \/ HandOverBody("incomplete")
    <2>1. PICK body \in {"malformed", "incomplete"} :
            handed' = [op |-> op, user |-> request.user, body |-> body]
          BY <1>2 DEF HandOverBody, HandOver
    <2>. QED BY <1>1, <2>1, BadBody, BadBodies
  <1>3. CASE HandOver([op |-> op, user |-> request.user, body |-> "ok",
                       url |-> Extension(ValueOf("content_type", "image/jpeg"))])
    <2> DEFINE url == Extension(ValueOf("content_type", "image/jpeg"))
    <2>1. url \in Urls
          BY DEF Extension, Urls
    <2> HIDE DEF url
    <2>2. handed' = [op |-> op, user |-> request.user, body |-> "ok", url |-> url]
          BY <1>3 DEF HandOver, url
    <2>3. handed' \in HttpRequests
          BY <1>1, <2>1, <2>2 DEF HttpRequests, Writes
    <2>. QED BY <1>1, <2>3, AsItIs
  <1>4. CASE HandleUploadAvatar /\ UNCHANGED handed
        BY <1>4 DEF HandleUploadAvatar, Runs, Inv
  <1>. QED BY <1>2, <1>3, <1>4 DEF HandleUploadAvatar, FinishUpload

LEMMA NotificationsHandsOver ==
  ASSUME Inv, IdsAreIds, HandleUpdateNotifications
  PROVE  IsHttpRequest(handed', op)
  <1>1. /\ op \in {"UpdateNotifications", "UpdateChatNotifications"}
        /\ request.user \in Users
        BY DEF HandleUpdateNotifications, Runs, IdsAreIds
  <1>2. CASE HandOverBody("malformed")
    <2>1. handed' = [op |-> op, user |-> request.user, body |-> "malformed"]
          BY <1>2 DEF HandOverBody, HandOver
    <2>. QED BY <1>1, <2>1, BadBody, BadBodies
  <1> DEFINE mute == IF ValueOf("muted", FALSE) THEN "muted" ELSE "unmuted"
  <1>3. mute \in Mutes
        BY DEF Mutes
  <1> HIDE DEF mute
  <1>4. CASE /\ op = "UpdateNotifications"
             /\ HandOver([op |-> op, user |-> request.user, body |-> "ok", mute |-> mute])
    <2>1. handed' = [op |-> op, user |-> request.user, body |-> "ok", mute |-> mute]
          BY <1>4 DEF HandOver
    <2>2. handed' \in HttpRequests
          BY <1>1, <1>3, <1>4, <2>1 DEF HttpRequests, Writes
    <2>. QED BY <1>4, <2>2, AsItIs
  <1>5. CASE /\ op = "UpdateChatNotifications"
             /\ HandOver([op |-> op, user |-> request.user, body |-> "ok", mute |-> mute,
                          chat |-> Plain(params["chat_id"])])
    <2>1. handed' = [op |-> op, user |-> request.user, body |-> "ok", mute |-> mute,
                     chat |-> Plain(params["chat_id"])]
          BY <1>5 DEF HandOver
    <2>2. Plain(params["chat_id"]) \in ChatIds
          BY <1>5, PlainIds
    <2>3. handed' \in HttpRequests
          BY <1>1, <1>3, <1>5, <2>1, <2>2 DEF HttpRequests, Writes
    <2>. QED BY <1>5, <2>3, AsItIs
  <1>. QED BY <1>1, <1>2, <1>4, <1>5 DEF HandleUpdateNotifications, mute

\* What has been handed on stays one until the next request.
HandedIsRequest == handed # None /\ IdsAreIds => IsHttpRequest(handed, op)

LEMMA HandedInductive == Inv /\ HandedIsRequest /\ [Next]_vars => HandedIsRequest'
  <1> SUFFICES ASSUME Inv, HandedIsRequest, [Next]_vars PROVE HandedIsRequest'
      OBVIOUS
  <1>1. CASE Receive
        BY <1>1 DEF Receive, Inv, HandedIsRequest
  <1>2. CASE Done
        BY <1>2 DEF Done, HandedIsRequest
  <1>3. CASE \/ AnswerOptions \/ RouteNotFound \/ MissingUser \/ BindHandler
             \/ DispatchToHandler \/ ParamMissing \/ Decode
    <2>1. phase # "done" /\ handed' = handed
          BY <1>3 DEF AnswerOptions, RouteNotFound, MissingUser, BindHandler,
                      DispatchToHandler, ParamMissing, Decode, Respond
    <2>. QED BY <2>1 DEF Inv, HandedIsRequest
  <1>4. UNCHANGED <<request, params, op>> => IdsAreIds' = IdsAreIds
        BY DEF IdsAreIds, Is, Has, Body, ValueOf
  <1>5. CASE UNCHANGED vars
    <2>1. UNCHANGED <<request, params, op, handed>>
          BY <1>5 DEF vars, context
    <2>. QED BY <1>4, <2>1 DEF HandedIsRequest, IsHttpRequest
  <1>6. CASE \/ HandleWithoutBody \/ HandleCreateProfile \/ HandleUpdateProfile
             \/ HandleUpdatePrivacy \/ HandleAddContact \/ HandleUploadAvatar
             \/ FinishUpload \/ HandleUpdateNotifications
    <2>1. (\E r : HandOver(r)) \/ UNCHANGED <<context, op>>
          BY <1>6 DEF HandleWithoutBody, HandleCreateProfile, HandleUpdateProfile,
                      HandleUpdatePrivacy, HandleAddContact, HandleUploadAvatar,
                      FinishUpload, HandleUpdateNotifications, HandOverBody
    <2>2. UNCHANGED <<request, params, op>>
          BY <2>1 DEF HandOver, context
    <2>3. ASSUME IdsAreIds PROVE handed' = None \/ IsHttpRequest(handed', op)
          BY <1>6, <2>3, WithoutBodyHandsOver, CreateHandsOver, UpdateProfileHandsOver,
             UpdatePrivacyHandsOver, AddContactHandsOver, UploadHandsOver,
             NotificationsHandsOver
    <2>4. IsHttpRequest(handed', op') = IsHttpRequest(handed', op)
          BY <2>2 DEF IsHttpRequest
    <2>5. IdsAreIds' = IdsAreIds
          BY <1>4, <2>2
    <2>6. HandedIsRequest' = (handed' # None /\ IdsAreIds' => IsHttpRequest(handed', op'))
          BY DEF HandedIsRequest, IsHttpRequest
    <2>. QED BY <2>3, <2>4, <2>5, <2>6
  <1>. QED BY <1>1, <1>2, <1>3, <1>5, <1>6 DEF Next, Step

\* HandsOverRequests: whatever is missing or ill-typed in a body, what a handler
\* goes on with is one of the requests that ProfileService is given.
THEOREM HandedAreRequests == Spec => []HandsOverRequests
  <1>1. HandedIsRequest => HandsOverRequests
        BY DEF HandedIsRequest, IsHttpRequest, HandsOverRequests
  <1>2. Init => HandedIsRequest
        BY DEF Init, HandedIsRequest
  <1>. QED BY <1>1, <1>2, SpecInv, HandedInductive, PTL DEF Spec
===============================================================================
