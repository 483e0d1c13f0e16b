SPECIFICATION Spec
CONSTANTS
  l1 = l1
  c1 = c1
  c2 = c2
  Free = Free
  Pro = Pro
  New = New
  None = None
  Requests = {l1, c1, c2}
  Packages = {Free, Pro, New}
  Initial = {Free, Pro}
  OpsOf <- EditOps
  ChangeTo = {"active"}
  Fallible = {}
INVARIANT
  OneDefault
PROPERTY
  VictimsClear
CHECK_DEADLOCK FALSE
