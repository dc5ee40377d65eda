SPECIFICATION FairSpec
CONSTANTS
  c1 = c1
  c2 = c2
  c3 = c3
  t1 = t1
  t2 = t2
  NoCall = NoCall
  NoTag = NoTag
  Consumer = Consumer
  Calls <- TwoCalls
  Tags <- OneTag
  TagOf <- TagOfTwo
  MaxConcurrency = 1
  IsAsync = FALSE
  MaxOutputs = 1
  Faults = {"kill", "download", "setup"}
  Stops = {"shutdown", "terminate"}
INVARIANTS
  TypeOK
  EventsReachTheirCall
  PendingHasOwner
  FutureAgreesWithEvents
PROPERTIES
  DoneSeenOnce
  EveryCallResolves
  ShutdownReturns
CHECK_DEADLOCK FALSE
