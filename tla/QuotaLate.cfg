SPECIFICATION Spec
CONSTANTS
  r1 = r1
  r2 = r2
  r3 = r3
  r4 = r4
  r5 = r5
  MaxMonth = 1
  Requests = {r1}
  Size <- UnitSize
  PersonOf <- OwnPersons
  OpsOf <- SearchOps
  Limit <- NoLimit
  Faults = {"late"}
INVARIANT NoFailureConsumes
CHECK_DEADLOCK FALSE
