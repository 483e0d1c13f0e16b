SPECIFICATION Spec
CONSTANTS
  r1 = r1
  r2 = r2
  r3 = r3
  r4 = r4
  r5 = r5
  MaxMonth = 2
  Requests <- SearchRequests
  Size <- UnitSize
  PersonOf <- OwnPersons
  OpsOf <- SearchOps
  Limit <- MixedLimit
  Faults = {"rollover"}
INVARIANT SuccessesWithinLimit
CHECK_DEADLOCK FALSE
