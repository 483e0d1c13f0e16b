SPECIFICATION FairSpec
CONSTANTS
  l1 = l1
  c1 = c1
  c2 = c2
  Free = Free
  Pro = Pro
  New = New
  None = None
  Requests = {l1, c1, c2}
  Packages = {Free, Pro, New}
  Initial = {Free, Pro}
  OpsOf <- MixedOps
  ChangeTo = {"active"}
  Fallible = {l1, c1}
INVARIANTS
  TypeOK
  Provisioned
  OneSubscription
PROPERTIES
  KeepsBook
  DeletionsSafe
  Answered
CHECK_DEADLOCK FALSE
