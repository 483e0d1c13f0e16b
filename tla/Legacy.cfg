SPECIFICATION Spec
CONSTANTS
  c1 = c1
  c2 = c2
  c3 = c3
  c4 = c4
  c5 = c5
  e1 = e1
  e2 = e2
  d1 = d1
  x1 = x1
  i1 = i1
  i2 = i2
  any = any
  p1 = p1
  p2 = p2
  url = url
  Calls <- MCCalls
  Scenes <- MCScenes
  AnyEvent = any
  UploadWorkers = 1
  SearchWorkers = 1
  MaxResults = 2
INVARIANTS
  TypeOK
  PendingKeepsTrack
  OneEventCredits
  AckedIsCredited
  PageNotBehind
  ProcessedMeansIndexed
  AnswersOfEvent
CHECK_DEADLOCK FALSE
