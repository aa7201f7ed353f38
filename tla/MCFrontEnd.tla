------------------------------ MODULE MCFrontEnd ------------------------------
(***************************************************************************)
(* The requests of an instance of FrontEnd: every method on every target   *)
(* of up to five tokens, and every body that the operations tell apart.    *)
(***************************************************************************)
EXTENDS FrontEnd

CONSTANTS u1, u2, k1, w1

PathTokens ==
  {"/", "*", "internal", "profiles", "me", "avatar", "privacy", "contacts", "favorites",
   "notifications", "{user_id}", "{contact_id}", "{chat_id}", "me?", u1, k1}

\* Two slashes may meet, two names do not.
Longer(targets) ==
  {t \o <<x>> : t \in targets, x \in {"/"}}
  \cup {t \o <<x>> : t \in {u \in targets : u[Len(u)] = "/"}, x \in PathTokens \ {"/", "*"}}

UpToThree == {Slash} \cup Longer({Slash}) \cup Longer(Longer({Slash}))

Targets ==
  {<<"*">>} \cup UpToThree \cup Longer(UpToThree)
  \cup {prefix \o <<u1, "/">> : prefix \in {UnderContacts, UnderFavorites, UnderNotifications}}

HttpRequest(method, target, user, body) ==
  [method |-> method, target |-> target, user |-> user, body |-> body]

NoJson == [form |-> "malformed"]
Array  == [form |-> "other"]

Text(x)   == [kind |-> "string", is |-> x]
Base64(x) == [kind |-> "base64", is |-> x]
Flag(x)   == [kind |-> "boolean", is |-> x]
Time(x)   == [kind |-> "time", is |-> x]
NullValue == [kind |-> "null"]
Number    == [kind |-> "number"]

\* Objects that give some of the fields of choice one of its values.
Objects(choice) ==
  {[form |-> "object", fields |-> f] :
     f \in UNION {{g \in [names -> UNION {choice[n] : n \in names}] :
                     \A n \in names : g[n] \in choice[n]} : names \in SUBSET DOMAIN choice}}

Names == {Text(w1), Text(Empty), NullValue, Number}
Ids   == {Text(u1), Text(u2), Text(Empty), NullValue, Number}

\* Digits with all bits, some or none set; padding and foreign characters anywhere.
Images == UNION {[1..n -> {0, 48, 63, Pad, Foreign}] : n \in 0..5}

Times == {TimeText(c, s, IF s = "offset" THEN 2 ELSE 0) : c \in {0, 5}, s \in TimeSuffixes}

Bodies(id) ==
  {NoJson, Array} \cup
  CASE id = "CreateProfile" -> Objects([user_id |-> Ids])
    [] id = "UpdateProfile" -> Objects([username |-> Names, bio |-> Names])
    [] id = "AddContact" -> Objects([contact_id |-> Ids, alias |-> Names])
    [] id = "UpdatePrivacy" ->
         Objects([f \in PrivacyFields |-> {Text("everyone"), NullValue}])
    [] id = "UploadAvatar" ->
         Objects([image_data |-> {Base64(i) : i \in Images}])
         \cup Objects([image_data |-> {Base64(<<>>), Base64(<<48, 48>>), Number},
                       content_type |-> {Text("image/png"), Text("image/webp"), NullValue}])
    [] OTHER ->
         Objects([muted |-> {Flag(TRUE), Flag(FALSE), NullValue},
                  mutedUntil |-> {Time(t) : t \in Times}
                                 \cup {Text(Empty), Text(w1), NullValue, Number}])

ReadsBody ==
  {"CreateProfile", "UpdateProfile", "AddContact", "UpdatePrivacy", "UploadAvatar",
   "UpdateNotifications", "UpdateChatNotifications"}

\* Any request without a body, and each operation that reads one with all bodies.
HttpArriving ==
  {HttpRequest(m, t, u, NoJson) : m \in Methods, t \in Targets, u \in {NoUser, u1}}
  \cup UNION {{HttpRequest(Routes[id].method,
                           IF id = "UpdateChatNotifications" THEN UnderNotifications \o <<k1>>
                           ELSE Routes[id].path,
                           u1, b) : b \in Bodies(id)} : id \in ReadsBody}
===============================================================================
