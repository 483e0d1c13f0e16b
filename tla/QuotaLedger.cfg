SPECIFICATION Spec
CONSTANTS
  r1 = r1
  r2 = r2
  r3 = r3
  r4 = r4
  r5 = r5
  MaxMonth = 2
  Requests <- MixedRequests
  Size <- MixedSize
  PersonOf <- OnePerson
  OpsOf <- MixedOps
  Limit <- MixedLimit
  Faults = {"crash", "late", "release"}
INVARIANTS
  TypeOK
  CountersExact
  HeldIsCharged
  StorageExact
  FailedConsumesNothing
  LiveImagesCharged
  StoredWithinLimit
PROPERTY
  KeepsPromise
CHECK_DEADLOCK FALSE
