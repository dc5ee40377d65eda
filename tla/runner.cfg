SPECIFICATION FairSpec
CONSTANTS
  r1 = r1
  r2 = r2
  i1 = i1
  i2 = i2
  NoRequest = NoRequest
  SetupTask = SetupTask
  Consumer = Consumer
  Requests <- TwoRequests
  Ids <- BothIds
  IdOf <- OwnIds
  Puts = {}
  Waiters = {r1}
  MaxConcurrency = 1
  MaxOutputs = 0
  Faults = {"kill", "download"}
INVARIANTS
  StatusAgrees
PROPERTIES
  TerminalIsFinal
  RequestsAreServed
  FatalIsNoticed
CHECK_DEADLOCK FALSE
