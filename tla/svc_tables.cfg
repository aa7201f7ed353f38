\* Contacts, favorites and settings over the columns of docker/init.sql
SPECIFICATION Spec
CONSTANTS
  c1 = c1  c2 = c2  u1 = u1  u2 = u2  k1 = k1  k2 = k2  w1 = w1  w2 = w2
  Null = Null  Empty = Empty  None = None
  Users = {u1, u2}
  Chats = {k1}
  Words = {w1}
  PatchColumns = {"username", "bio"}
  PrivacyFields = {"profile_visibility"}
  Visibilities = {"everyone", "nobody", "friends"}
  StorableVisibilities = {"everyone", "nobody"}
  StorableChats <- UuidChats
  Clients = {c1, c2}
  Operations <- TableOperations
  MaxRequests = 4
  MaxCrashes = 1
SYMMETRY Symmetry
INVARIANTS TypeOK AnswersMatchTables RetryIsHarmless
PROPERTIES ImplementsApi
CHECK_DEADLOCK FALSE
