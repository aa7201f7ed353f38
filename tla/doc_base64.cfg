\* DecodesBase64
SPECIFICATION Spec
CONSTANTS
  u1 = u1  u2 = u2  k1 = k1  w1 = w1
  Null = Null  Empty = Empty  None = None  NoUser = NoUser
  Users = {u1, u2}
  Chats = {k1}
  Words = {w1}
  PatchColumns = {"username", "bio"}
  PrivacyFields = {"profile_visibility", "avatar_visibility"}
  Visibilities = {"everyone"}
  StorableVisibilities = {"everyone"}
  StorableChats = {k1, Empty}
  Word = 4096
  ProcessZone = 0
  SessionZone = 0
  Arriving <- HttpArriving
  Tokens <- PathTokens
INVARIANT DecodesBase64
