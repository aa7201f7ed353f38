------------------------------- MODULE FrontEnd -------------------------------
(***************************************************************************)
(* From an HTTP request to the request of Requests that a handler carries  *)
(* out: RequestManager::Handle, the dispatch of the handlers, and what     *)
(* they read of the body before their first statement                      *)
(* (src/src/request_manager.cpp, src/src/handlers).  ProfileService begins *)
(* where this module ends.                                                 *)
(*                                                                         *)
(* One request at a time, as the one worker thread has it.  What a handler *)
(* answers to a body it cannot use is in ProfileService; here it is handed *)
(* on with that mark.                                                      *)
(***************************************************************************)
EXTENDS Requests, Routing, Base64Decoder, MuteTime

CONSTANTS
  Arriving,   \* the HTTP requests of this instance
  Tokens,     \* the tokens of their targets
  NoUser      \* no X-User-ID, or an empty one

ASSUME ArrivingAssumption ==
  \A r \in Arriving : r.method \in Methods /\ r.target \in Seq(Tokens)

\* RFC 3339: Z stands for no offset.
ASSUME TimesAssumption ==
  \A r \in Arriving : r.body.form = "object" =>
    \A f \in DOMAIN r.body.fields : r.body.fields[f].kind = "time" =>
      LET t == r.body.fields[f].is IN t.clock \in Int /\ (t.suffix = "Z" => t.ahead = 0)

\* A text, a word of the privacy settings, a flag and a base64 text of this instance.
ASSUME BodiesAssumption ==
  \A r \in Arriving : r.body.form = "object" =>
    \A f \in DOMAIN r.body.fields :
      LET value == r.body.fields[f]
      IN  /\ value.kind = "base64" => value.is \in Seq(Symbols)
          /\ value.kind = "boolean" => value.is \in BOOLEAN
          /\ value.kind = "string" =>
               /\ f \in PatchColumns \cup {"alias"} => value.is \in Texts
               /\ f \in PrivacyFields => value.is \in Visibilities

ASSUME NoUserAssumption == NoUser \notin Users /\ Users # {}

\* None is the mark of what is not known yet.
ASSUME MarkAssumption == None \notin HandlerIds /\ None \notin {204, 400, 401, 404}

VARIABLES
  phase,     \* where the request is
  request,   \* the request, or None
  route,     \* the HandlerId the route table gives it, or None
  params,    \* RouteContext::PathParams
  op,        \* the operation its handler runs, or None
  response,  \* the status when it is answered here, or None
  handed,    \* the request of Requests it comes to, or None
  until      \* the muted_until of that request, or None

context == <<request, route, params>>

vars == <<phase, context, op, response, handed, until, decoder>>

Phases == {"idle", "received", "bound", "dispatched", "decoding", "done"}

Init ==
  /\ phase = "idle"
  /\ request = None /\ route = None /\ params = NoParams
  /\ op = None /\ response = None /\ handed = None /\ until = None
  /\ DecoderInit

\* http::read has a request.
Receive ==
  /\ phase = "idle"
  /\ request' \in Arriving
  /\ phase' = "received"
  /\ UNCHANGED <<route, params, op, response, handed, until, decoder>>

\* The response goes out; nothing of the request is left.
Done ==
  /\ phase = "done"
  /\ phase' = "idle"
  /\ request' = None /\ route' = None /\ params' = NoParams
  /\ op' = None /\ response' = None /\ handed' = None /\ until' = None
  /\ StartDecoding(<<>>)

-------------------------------------------------------------------------------
(***************************************************************************)
(* RequestManager::Handle                                                  *)
(***************************************************************************)
Respond(status) ==
  /\ phase' = "done" /\ response' = status
  /\ UNCHANGED <<context, op, handed, until, decoder>>

Resolved == ResolveRoute(request.target, request.method)

\* is_internalCreateProfile
CreatesProfile == request.method = "POST" /\ request.target = InternalProfiles

\* Mutant of Admitted: everything that begins with /internal needs no user.
Admitted_ByPrefix ==
  IsPrefix(<<"/", "internal">>, request.target) \/ request.user # NoUser

\* userID.empty() and AuthorizeRequest, which asks the same again, so that 403 is
\* never answered.
Admitted == CreatesProfile \/ request.user # NoUser

AnswerOptions == phase = "received" /\ request.method = "OPTIONS" /\ Respond(204)

RouteNotFound ==
  /\ phase = "received" /\ request.method # "OPTIONS"
  /\ Resolved = {}
  /\ Respond(404)

MissingUser ==
  /\ phase = "received" /\ request.method # "OPTIONS"
  /\ Resolved # {} /\ ~Admitted
  /\ Respond(401)

BindHandler ==
  /\ phase = "received" /\ request.method # "OPTIONS"
  /\ Admitted
  /\ route' \in Resolved
  /\ params' = ExtractPathParams(request.target)
  /\ phase' = "bound"
  /\ UNCHANGED <<request, op, response, handed, until, decoder>>

\* The Handle of the bound handler: 404 for what it does not know.
DispatchToHandler ==
  /\ phase = "bound"
  /\ LET found == Dispatch(route, request.target, request.method)
     IN  IF found = {} THEN Respond(404)
         ELSE /\ op' \in found
              /\ phase' = "dispatched"
              /\ UNCHANGED <<context, response, handed, until, decoder>>

ParamMissing ==
  /\ phase = "dispatched"
  /\ ParamOf(op) \ DOMAIN params # {}
  /\ Respond(400)

Runs(id) == phase = "dispatched" /\ op = id /\ ParamOf(id) \subseteq DOMAIN params

-------------------------------------------------------------------------------
(***************************************************************************)
(* Bodies, as nlohmann::json reads them: no JSON ("malformed"), an object, *)
(* or another value.  contains() is false of anything but an object;       *)
(* value() throws on anything but an object and on a field of another      *)
(* type; operator[] and get() throw on another type.  A body that is no    *)
(* JSON throws before.                                                     *)
(***************************************************************************)
Body == request.body

Malformed == Body.form = "malformed"

Has(f) == Body.form = "object" /\ f \in DOMAIN Body.fields

Is(f, kind) == Has(f) /\ Body.fields[f].kind = kind

GetThrows(f, kind) == Has(f) /\ ~Is(f, kind)

ValueThrows(f, kind) == Body.form # "object" \/ GetThrows(f, kind)

\* A field, and default when the body does not name it.
ValueOf(f, default) == IF Has(f) THEN Body.fields[f].is ELSE default

HandOver(r) ==
  /\ phase' = "done" /\ handed' = r
  /\ UNCHANGED <<context, op, response>>

HandOverBody(body) == HandOver([op |-> op, user |-> request.user, body |-> body])

\* The text of a parameter: an id when it is one token.
Plain(tokens) ==
  IF Len(tokens) = 1 THEN tokens[1] ELSE IF tokens = <<>> THEN Empty ELSE tokens

ReadsNoBody ==
  {"GetMyProfile", "GetPrivacy", "GetContacts", "GetFavorites", "GetNotifications",
   "DeleteAvatar"}

HandleWithoutBody ==
  /\ \/ \E id \in ReadsNoBody : Runs(id) /\ HandOver([op |-> id, user |-> request.user])
     \/ /\ Runs("GetProfileByID")
        /\ HandOver([op |-> op, user |-> request.user, target |-> Plain(params["user_id"])])
     \/ /\ Runs("DeleteContact")
        /\ HandOver([op |-> op, user |-> request.user,
                     contact |-> Plain(params["contact_id"])])
     \/ \E id \in {"AddFavorite", "RemoveFavorite", "GetChatNotifications"} :
          /\ Runs(id)
          /\ HandOver([op |-> id, user |-> request.user, chat |-> Plain(params["chat_id"])])
  /\ UNCHANGED <<until, decoder>>

HandleCreateProfile ==
  /\ Runs("CreateProfile")
  /\ IF ValueThrows("user_id", "string") THEN HandOverBody("malformed")
     ELSE IF ValueOf("user_id", Empty) = Empty THEN HandOverBody("incomplete")
     ELSE HandOver([op |-> op, user |-> ValueOf("user_id", Empty), body |-> "ok"])
  /\ UNCHANGED <<until, decoder>>

HandleUpdateProfile ==
  /\ Runs("UpdateProfile")
  /\ LET named == {f \in PatchColumns : Has(f)}
     IN  IF Malformed THEN HandOverBody("malformed")
         ELSE IF \E f \in named : GetThrows(f, "string") THEN HandOverBody("illtyped")
         ELSE HandOver([op |-> op, user |-> request.user, body |-> "ok",
                        patch |-> [f \in named |-> ValueOf(f, Empty)]])
  /\ UNCHANGED <<until, decoder>>

HandleUpdatePrivacy ==
  /\ Runs("UpdatePrivacy")
  /\ LET named == {f \in PrivacyFields : Has(f)}
     IN  IF \E f \in PrivacyFields : ValueThrows(f, "string")
         THEN HandOverBody("malformed")
         ELSE HandOver([op |-> op, user |-> request.user, body |-> "ok",
                        settings |-> [f \in named |-> ValueOf(f, "everyone")]])
  /\ UNCHANGED <<until, decoder>>

\* Mutant of HandleAddContact: contactID.empty() not asked.
HandleAddContact_AnyId ==
  /\ Runs("AddContact")
  /\ IF ValueThrows("contact_id", "string") \/ GetThrows("alias", "string")
     THEN HandOverBody("malformed")
     ELSE HandOver([op |-> op, user |-> request.user, body |-> "ok",
                    contact |-> ValueOf("contact_id", Empty),
                    alias |-> ValueOf("alias", Null)])
  /\ UNCHANGED <<until, decoder>>

HandleAddContact ==
  /\ Runs("AddContact")
  /\ IF ValueThrows("contact_id", "string") THEN HandOverBody("malformed")
     ELSE IF ValueOf("contact_id", Empty) = Empty THEN HandOverBody("incomplete")
     ELSE IF GetThrows("alias", "string") THEN HandOverBody("malformed")
     ELSE HandOver([op |-> op, user |-> request.user, body |-> "ok",
                    contact |-> ValueOf("contact_id", Empty),
                    alias |-> ValueOf("alias", Null)])
  /\ UNCHANGED <<until, decoder>>

-------------------------------------------------------------------------------
(***************************************************************************)
(* POST /me/avatar                                                         *)
(***************************************************************************)
HandleUploadAvatar ==
  /\ Runs("UploadAvatar")
  /\ \/ /\ IF Malformed THEN HandOverBody("malformed")
           ELSE IF ~Has("image_data") THEN HandOverBody("incomplete")
           ELSE /\ ~Is("image_data", "base64") \/ ValueThrows("content_type", "string")
                /\ HandOverBody("malformed")
        /\ UNCHANGED decoder
     \/ /\ ~Malformed /\ Is("image_data", "base64") /\ ~ValueThrows("content_type", "string")
        /\ StartDecoding(Body.fields["image_data"].is)
        /\ phase' = "decoding"
        /\ UNCHANGED <<context, op, response, handed>>
  /\ UNCHANGED until

Decode ==
  /\ phase = "decoding"
  /\ DecodeSymbol
  /\ UNCHANGED <<phase, context, op, response, handed, until>>

\* MinIOStorage::Upload
Extension(content_type) ==
  IF content_type = "image/png" THEN "png"
  ELSE IF content_type = "image/webp" THEN "webp"
  ELSE "jpg"

FinishUpload ==
  /\ phase = "decoding" /\ DecodingEnds
  /\ IF decoded = <<>> THEN HandOverBody("incomplete")
     ELSE HandOver([op |-> op, user |-> request.user, body |-> "ok",
                    url |-> Extension(ValueOf("content_type", "image/jpeg"))])
  /\ UNCHANGED <<until, decoder>>

-------------------------------------------------------------------------------
(***************************************************************************)
(* PUT /notifications and PUT /notifications/{chat_id}                     *)
(***************************************************************************)
\* mutedUntil is looked at unless it is missing, null or "".
NamesTime == Has("mutedUntil") /\ ~Is("mutedUntil", "null")

TimeThrows ==
  NamesTime /\ ~Is("mutedUntil", "time") /\ ~(Is("mutedUntil", "string") /\
                                              ValueOf("mutedUntil", Empty) = Empty)

TimeAsked == IF Is("mutedUntil", "time") THEN {Body.fields["mutedUntil"].is} ELSE {}

HandleUpdateNotifications ==
  /\ Runs("UpdateNotifications") \/ Runs("UpdateChatNotifications")
  /\ IF \/ ValueThrows("muted", "boolean") \/ TimeThrows
        \/ \E t \in TimeAsked : GetTime(t) = {}
     THEN HandOverBody("malformed") /\ UNCHANGED until
     ELSE LET mute == IF ValueOf("muted", FALSE) THEN "muted" ELSE "unmuted"
          IN  /\ IF op = "UpdateNotifications"
                 THEN HandOver([op |-> op, user |-> request.user, body |-> "ok", mute |-> mute])
                 ELSE HandOver([op |-> op, user |-> request.user, body |-> "ok", mute |-> mute,
                                chat |-> Plain(params["chat_id"])])
              /\ IF TimeAsked = {} THEN until' = None
                 ELSE \E t \in TimeAsked : \E clock \in GetTime(t) :
                        until' = StoredAs(MkTime(clock))
  /\ UNCHANGED decoder

-------------------------------------------------------------------------------
Step ==
  \/ AnswerOptions \/ RouteNotFound \/ MissingUser \/ BindHandler
  \/ DispatchToHandler \/ ParamMissing
  \/ HandleWithoutBody \/ HandleCreateProfile \/ HandleUpdateProfile
  \/ HandleUpdatePrivacy \/ HandleAddContact
  \/ HandleUploadAvatar \/ Decode \/ FinishUpload
  \/ HandleUpdateNotifications
  \/ Done

Next == Receive \/ Step

\* The thread goes on with the request it has.
Spec == Init /\ [][Next]_vars /\ WF_vars(Step)
-------------------------------------------------------------------------------
\* Types of the request, its context, the decoder and what comes of them.
TypeOK ==
  /\ phase \in Phases
  /\ request # None => request.method \in Methods /\ request.target \in Seq(Tokens)
  /\ route \in HandlerIds \cup {None} /\ op \in HandlerIds \cup {None}
  /\ DOMAIN params \subseteq {"user_id", "contact_id", "chat_id"}
  /\ \A name \in DOMAIN params : params[name] \in Seq(Tokens)
  /\ response \in {None, 204, 400, 401, 404}
  /\ until \in Int \cup {None}
  /\ DecoderTypeOK

\* The three matchings of a target agree: the handler a route binds runs the
\* operation the route is for, and never answers 404 to what was routed to it.
RouteIsDispatched ==
  /\ op # None => op = route
  /\ response = 404 => route = None

\* The path of a route with its parameter filled in.
Filled(id) ==
  LET path == Routes[id].path
  IN  IF ParamOf(id) = {} THEN path
      ELSE SubSeq(path, 1, Len(path) - 1) \o params[CHOOSE name \in ParamOf(id) : TRUE]

\* What a handler carries out is what the target says: its route with the
\* parameter it was given in the place of the placeholder is the target again.
ReachedByItsPath ==
  handed # None =>
    request.method = Routes[op].method /\ request.target = Filled(op)

\* A path matches a route segment by segment, a placeholder any one segment.
Matches(id) ==
  LET path == Routes[id].path
  IN  /\ request.method = Routes[id].method /\ Len(request.target) = Len(path)
      /\ \A i \in 1..Len(path) :
           \/ request.target[i] = path[i]
           \/ i = Len(path) /\ ParamOf(id) # {} /\ request.target[i] # "/"

\* Every request that a route of the table matches reaches its operation: the
\* literal one where two match, as GET /me does /{user_id} too.
MatchedIsServed ==
  phase = "done" /\ Admitted =>
    \A id \in HandlerIds :
      Matches(id) /\ (\A other \in HandlerIds \ {id, "GetProfileByID"} : ~Matches(other))
        => op = id

\* Nobody without an X-User-ID gets anything done but POST /internal/profiles,
\* and everything else is done in the name of that header.
NoOneActsAnonymously ==
  handed # None /\ op # "CreateProfile" =>
    handed.user # NoUser /\ handed.user = request.user

\* The ids of the request are ids of accounts and chats, a chat's or a body's
\* possibly empty.
IdsAreIds ==
  /\ op = "CreateProfile" \/ request.user \in Users
  /\ \A name \in ParamOf(op) :
       params[name] \in IF name = "chat_id" THEN {<<k>> : k \in Chats} \cup {<<>>}
                       ELSE {<<u>> : u \in Users}
  /\ \A f \in {"user_id", "contact_id"} :
       Is(f, "string") => ValueOf(f, Empty) \in Users \cup {Empty}

\* ProfileService is given every request that can come out of here: what is handed
\* on is one of HttpRequests, whatever is missing or ill-typed in the body.  The
\* user of a POST /internal/profiles that names none does not matter.
HandsOverRequests ==
  handed # None /\ IdsAreIds =>
    \E u \in Users :
      [handed EXCEPT !.user = IF op = "CreateProfile" /\ handed.body # "ok" THEN u ELSE @]
        \in HttpRequests

\* Nothing is lost to the width of val: every byte is eight bits of the digits,
\* behind the two zero bits that a count from -6 puts before them.
OverflowIsHarmless ==
  phase = "decoding" => decoded = Octets(DigitsBefore(text, at), 2)

\* A mutedUntil in RFC 3339 that is not refused is stored as the instant it names,
\* where process and session keep UTC as they do in the containers.
AcceptedTimeIsKept ==
  (ProcessZone = 0 /\ SessionZone = 0) =>
    (until # None => \A t \in TimeAsked : Rfc3339(t) => until = Named(t))

\* Every request is answered or handed on: no loop over a body goes on for ever.
RequestIsDecided == phase = "received" ~> phase = "done"

\* Groups of four characters, of which the last may end in one or two "=".
WellFormed(encoded) ==
  /\ Len(encoded) % 4 = 0
  /\ \E n \in (Len(encoded) - 2)..Len(encoded) :
       \A i \in 1..Len(encoded) : IF i <= n THEN encoded[i] \in Digits ELSE encoded[i] = Pad

\* The claim of POST /me/avatar that it takes base64: what it decodes is what RFC
\* 4648 says the text stands for.
DecodesBase64 ==
  phase = "done" /\ op = "UploadAvatar" /\ handed.body = "ok" /\ WellFormed(text) =>
    decoded = Octets(DigitsBefore(text, at), 0)
===============================================================================
