SPECIFICATION Spec
CONSTANTS
  u1 = u1
  u2 = u2
  u3 = u3
  x1 = x1
  a = a
  b = b
  red = red
  blue = blue
  k = k
  Unnamed = Unnamed
  None = None
  Requests = {u1, u2}
  OpsOf <- MixedOps
  Sha <- MixedSha
  Ext <- MixedExt
  Key <- MixedKey
  ByPerson = {}
  Exts = {a, b}
  Faults = {"fail"}
INVARIANT ReplaysRegistered
CHECK_DEADLOCK FALSE
