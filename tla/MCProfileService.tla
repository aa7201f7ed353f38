--------------------------- MODULE MCProfileService ---------------------------
(***************************************************************************)
(* Values for the constants of ProfileService.  Chat ids, accounts and     *)
(* clients are interchangeable, so TLC may take them up to permutation     *)
(* where a run checks no liveness property.                                *)
(***************************************************************************)
EXTENDS ProfileService, TLC

CONSTANTS c1, c2, u1, u2, k1, k2, w1, w2

ProfileOperations ==
  {"CreateProfile", "GetMyProfile", "GetProfileByID", "UpdateProfile", "UploadAvatar",
   "DeleteAvatar"}

PatchOperations == {"CreateProfile", "UpdateProfile", "UploadAvatar"}

TableOperations ==
  {"CreateProfile", "GetContacts", "AddContact", "DeleteContact",
   "GetFavorites", "AddFavorite", "RemoveFavorite",
   "GetPrivacy", "UpdatePrivacy", "GetNotifications", "GetChatNotifications",
   "UpdateNotifications", "UpdateChatNotifications"}

SettingsOperations ==
  {"CreateProfile", "GetNotifications", "GetChatNotifications",
   "UpdateNotifications", "UpdateChatNotifications"}

\* Both operations with two steps, and one that writes in a single step.
LiveOperations == {"CreateProfile", "UpdateProfile", "GetChatNotifications"}

\* chat_id VARCHAR(255) of src/migrations/001_init.sql takes any text,
\* chat_id UUID of src/docker/init.sql only well-formed ones: k2 stands for an
\* id that is not.
TextChats == {k1, k2, Empty}
UuidChats == {k1}

Symmetry == Permutations({c1, c2}) \cup Permutations({u1, u2})
===============================================================================
