SPECIFICATION FairSpec
CONSTANTS
  u1 = u1
  u2 = u2
  u3 = u3
  x1 = x1
  a = a
  b = b
  red = red
  blue = blue
  k = k
  Unnamed = Unnamed
  None = None
  Requests <- MixedRequests
  OpsOf <- MixedOps
  Sha <- MixedSha
  Ext <- MixedExt
  Key <- MixedKey
  ByPerson = {u3}
  Exts = {a, b}
  Faults = {"fail", "stray", "expire"}
INVARIANTS
  TypeOK
  RetriesRegisterOnce
  OnePersonPerExternalId
  LiveFacesStored
  ObjectsMatchFaces
  OrphansRaced
  ReplaysAccounted
PROPERTY
  KeepsRegistry
  Answered
CHECK_DEADLOCK FALSE
