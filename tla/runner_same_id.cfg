SPECIFICATION Spec
CONSTANTS
  r1 = r1
  r2 = r2
  i1 = i1
  i2 = i2
  NoRequest = NoRequest
  SetupTask = SetupTask
  Consumer = Consumer
  Requests <- TwoRequests
  Ids <- OneId
  IdOf <- SameId
  Puts = {r1}
  Waiters = {r2}
  MaxConcurrency = 2
  MaxOutputs = 1
  Faults = {"kill", "download", "upload", "hook"}
INVARIANTS
  FinishedIsForgotten
PROPERTIES
  CancelHitsTheTask
CHECK_DEADLOCK FALSE
