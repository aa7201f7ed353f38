\* Every queued request ends, whatever breaks
SPECIFICATION Spec
CONSTANTS
  c1 = c1  c2 = c2  u1 = u1  u2 = u2  k1 = k1  k2 = k2  w1 = w1  w2 = w2
  Null = Null  Empty = Empty  None = None
  Users = {u1}
  Chats = {k1}
  Words = {w1}
  PatchColumns = {"username"}
  PrivacyFields = {"profile_visibility"}
  Visibilities = {"everyone"}
  StorableVisibilities = {"everyone"}
  StorableChats = {k1}
  Clients = {c1, c2}
  Operations <- LiveOperations
  MaxRequests = 4
  MaxCrashes = 1

PROPERTY EveryRequestEnds
CHECK_DEADLOCK FALSE
