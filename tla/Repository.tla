------------------------------ MODULE Repository ------------------------------
(***************************************************************************)
(* The tables of the profile service and the SQL statements the            *)
(* repositories run on them (src/src/repository/ *_repository.cpp, schema  *)
(* in src/migrations/001_init.sql and src/docker/init.sql).                *)
(*                                                                         *)
(* A statement that modifies a table is an operator from a database and    *)
(* its parameters to the set of databases it can leave: one of them, or    *)
(* none when PostgreSQL refuses it (a constraint, a foreign key or a       *)
(* parameter its column type cannot hold).  A statement that only reads    *)
(* returns what the mappers and the handlers make of the rows.             *)
(*                                                                         *)
(* Timestamps are left out: no handler reads a stored one back, the        *)
(* mappers answer with the current time.                                   *)
(***************************************************************************)
EXTENDS Integers

CONSTANTS
  Users,            \* ids of accounts; each may or may not have a profile row
  Chats,            \* ids of chats
  Words,            \* non-empty texts a client can store
  PatchColumns,     \* columns of profiles that PATCH /me writes
  PrivacyFields,    \* columns of privacy_settings
  Visibilities,     \* texts a client can send as a visibility
  StorableVisibilities, \* those the column type accepts
  StorableChats,    \* the chat ids, "" included, the chat_id column type accepts
  Null,             \* SQL NULL, an optional without value
  Empty,            \* the empty string
  None              \* no row, no request

ASSUME ColumnsAssumption ==
  /\ "username" \in PatchColumns
  /\ "avatar_url" \notin PatchColumns

ASSUME ValuesAssumption ==
  /\ Null # Empty /\ Null # None /\ Empty # None
  /\ {Null, Empty, None} \cap (Words \cup {"jpg", "png", "webp"}) = {}
  /\ Words \cap {"jpg", "png", "webp"} = {}
  /\ Null \notin Chats /\ Empty \notin Chats
  /\ StorableChats \subseteq Chats \cup {Empty}
  /\ "everyone" \in StorableVisibilities
  /\ StorableVisibilities \subseteq Visibilities

Columns == PatchColumns \cup {"avatar_url"}
Urls    == {"jpg", "png", "webp"}   \* an avatar URL differs by its extension only
Texts   == Words \cup {Empty}
Values  == Texts \cup Urls
Mutes   == {"muted", "unmuted"}
ChatIds == Chats \cup {Empty}
ChatKeys == ChatIds \cup {Null}     \* chat_id is nullable in notification_settings

(***************************************************************************)
(* Rows and tables.  None says that the key has no row; Profile is what    *)
(* the columns of a profiles row can hold.                                 *)
(***************************************************************************)
Profile  == [Columns -> Values \cup {Null}]
Settings == [PrivacyFields -> StorableVisibilities]

\* None is not a row: it is the mark of a key without one.
ASSUME NoneAssumption ==
  /\ None \notin Profile /\ None \notin Settings
  /\ None \notin Mutes /\ None \notin Texts

Database ==
  [profiles      : [Users -> Profile \cup {None}],
   contacts      : [Users \X Users -> Texts \cup {None}],
   favorites     : SUBSET (Users \X StorableChats),
   privacy       : [Users -> Settings \cup {None}],
   notifications : [Users \X ChatKeys -> Mutes \cup {None}]]

EmptyDatabase ==
  [profiles      |-> [u \in Users |-> None],
   contacts      |-> [p \in Users \X Users |-> None],
   favorites     |-> {},
   privacy       |-> [u \in Users |-> None],
   notifications |-> [p \in Users \X ChatKeys |-> None]]

HasProfile(d, u) == d.profiles[u] # None

\* UNIQUE on a nullable column: any number of NULLs, every text once, "" too.
UsernamesUnique(d) ==
  \A u, v \in Users :
    /\ u # v /\ HasProfile(d, u) /\ HasProfile(d, v)
    /\ d.profiles[u]["username"] = d.profiles[v]["username"]
    => d.profiles[u]["username"] = Null

\* FOREIGN KEY ... REFERENCES profiles(user_id)
ReferencesHold(d) ==
  /\ \A u, v \in Users : d.contacts[<<u, v>>] # None => HasProfile(d, u) /\ HasProfile(d, v)
  /\ \A u \in Users, k \in StorableChats : <<u, k>> \in d.favorites => HasProfile(d, u)
  /\ \A u \in Users : d.privacy[u] # None => HasProfile(d, u)
  /\ \A u \in Users, k \in ChatKeys : d.notifications[<<u, k>>] # None => HasProfile(d, u)

\* A statement commits only a database that meets the constraints.
Checked(d) == {e \in {d} : UsernamesUnique(e) /\ ReferencesHold(e)}

\* std::optional<std::string>::value_or("")
OrEmpty(v) == IF v = Null THEN Empty ELSE v

\* Mutant of Shown: a handler that forgets value_or("").
Shown_Raw(row) == [c \in Columns |-> row[c]]

\* A row as the GET handlers answer it and as PATCH /me writes it back.
Shown(row) == [c \in Columns |-> OrEmpty(row[c])]

\* The columns of row with those of patch in their place.
Overlay(row, patch) ==
  [c \in Columns |-> IF c \in DOMAIN patch THEN patch[c] ELSE row[c]]

(***************************************************************************)
(* ProfileRepository                                                       *)
(***************************************************************************)
NewProfile == [c \in Columns |-> Null]

\* Mutant of CreateProfile: INSERT without ON CONFLICT.
CreateProfile_NoConflictClause(d, u) ==
  IF HasProfile(d, u) THEN {} ELSE Checked([d EXCEPT !.profiles[u] = NewProfile])

\* INSERT ... ON CONFLICT (user_id) DO UPDATE SET updated_at = now()
CreateProfile(d, u) ==
  Checked([d EXCEPT !.profiles[u] = IF @ = None THEN NewProfile ELSE @])

\* UPDATE of the patchable columns, absent values written as ""; avatar_url
\* is not in the statement.  A user without a row makes it update no row.
UpdateProfile(d, u, profile) ==
  IF HasProfile(d, u)
  THEN Checked([d EXCEPT !.profiles[u] =
         [c \in Columns |-> IF c \in PatchColumns THEN OrEmpty(profile[c]) ELSE d.profiles[u][c]]])
  ELSE {d}

\* Mutant of UpdateAvatarURL: UPDATE without its WHERE clause.
UpdateAvatarURL_NoWhere(d, u, url) ==
  Checked([d EXCEPT !.profiles =
    [v \in Users |-> IF d.profiles[v] = None THEN None
                    ELSE [d.profiles[v] EXCEPT !["avatar_url"] = url]]])

UpdateAvatarURL(d, u, url) ==
  IF HasProfile(d, u)
  THEN Checked([d EXCEPT !.profiles[u] = [@ EXCEPT !["avatar_url"] = url]])
  ELSE {d}

(***************************************************************************)
(* ContactsRepository, FavoriteRepository                                  *)
(***************************************************************************)
\* Mutant of AddContact: the optional alias bound as it is.
AddContact_NullAlias(d, owner, contact, alias) ==
  Checked([d EXCEPT !.contacts[<<owner, contact>>] = alias])

AddContact(d, owner, contact, alias) ==
  Checked([d EXCEPT !.contacts[<<owner, contact>>] = OrEmpty(alias)])

RemoveContact(d, owner, contact) ==
  {[d EXCEPT !.contacts[<<owner, contact>>] = None]}

ListContacts(d, owner) ==
  {<<v, d.contacts[<<owner, v>>]>> : v \in {w \in Users : d.contacts[<<owner, w>>] # None}}

\* Mutant of AddFavorite: INSERT without ON CONFLICT DO NOTHING.
AddFavorite_NoConflictClause(d, u, chat) ==
  IF chat \in StorableChats /\ <<u, chat>> \notin d.favorites
  THEN Checked([d EXCEPT !.favorites = @ \cup {<<u, chat>>}]) ELSE {}

AddFavorite(d, u, chat) ==
  IF chat \in StorableChats THEN Checked([d EXCEPT !.favorites = @ \cup {<<u, chat>>}]) ELSE {}

RemoveFavorite(d, u, chat) ==
  IF chat \in StorableChats THEN {[d EXCEPT !.favorites = @ \ {<<u, chat>>}]} ELSE {}

ListFavorites(d, u) == {k \in StorableChats : <<u, k>> \in d.favorites}

(***************************************************************************)
(* PrivacyRepository, NotificationRepository                               *)
(***************************************************************************)
GetPrivacy(d, u) ==
  IF d.privacy[u] = None THEN [f \in PrivacyFields |-> "everyone"] ELSE d.privacy[u]

UpdatePrivacy(d, u, settings) ==
  IF settings \in Settings THEN Checked([d EXCEPT !.privacy[u] = settings]) ELSE {}

\* WHERE chat_id IS NULL for the global settings (key Null), chat_id = $2 for a
\* chat; a missing row answers the default, it does not throw.
GetNotifications(d, u, key) ==
  IF d.notifications[<<u, key>>] = None THEN "unmuted" ELSE d.notifications[<<u, key>>]

\* Mutant of UpsertNotifications: ON CONFLICT DO NOTHING.
UpsertNotifications_KeepsOld(d, u, key, mute) ==
  IF OrEmpty(key) \in StorableChats
  THEN Checked([d EXCEPT !.notifications[<<u, OrEmpty(key)>>] = IF @ = None THEN mute ELSE @])
  ELSE {}

\* chat_id is ChatID.value_or(""): the global settings are stored under "".
UpsertNotifications(d, u, key, mute) ==
  IF OrEmpty(key) \in StorableChats
  THEN Checked([d EXCEPT !.notifications[<<u, OrEmpty(key)>>] = mute])
  ELSE {}
===============================================================================
