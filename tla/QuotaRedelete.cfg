SPECIFICATION Spec
CONSTANTS
  r1 = r1
  r2 = r2
  r3 = r3
  r4 = r4
  r5 = r5
  MaxMonth = 1
  Requests <- DeleteRequests
  Size <- DeleteSize
  PersonOf <- OwnPersons
  OpsOf <- DeleteOps
  Limit <- StorageLimit
  Faults = {"redelete"}
INVARIANT StoredWithinLimit
CHECK_DEADLOCK FALSE
