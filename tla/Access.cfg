SPECIFICATION Spec
CONSTANTS
  r1 = r1
  r2 = r2
  r3 = r3
  r4 = r4
  u1 = u1
  u2 = u2
  k1 = k1
  s1 = s1
  s2 = s2
  a1 = a1
  a2 = a2
  Requests <- MCRequests
  Users <- MCUsers
  Scopes <- MCScopes
  Scenes <- MCScenes
  SessionTTL = 1
  Window = 2
  LastTime = 2
INVARIANTS
  TypeOK
  WithdrawnStayOut
  DeletedStaysOut
  ReplacementsNeverOutlive
  RolesAsGiven
  WindowAdmits
PROPERTY EveryRequestEnds
CHECK_DEADLOCK FALSE
