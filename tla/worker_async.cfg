SPECIFICATION Spec
CONSTANTS
  c1 = c1
  c2 = c2
  c3 = c3
  t1 = t1
  t2 = t2
  NoCall = NoCall
  NoTag = NoTag
  Consumer = Consumer
  Calls <- ThreeCalls
  Tags <- BothTags
  TagOf <- TagOfThree
  MaxConcurrency = 2
  IsAsync = TRUE
  MaxOutputs = 0
  Faults = {"kill", "download", "exit"}
  Stops = {"shutdown"}
INVARIANTS
  TruthfulOutcome
  CanceledOnRequest
PROPERTIES
  ImplementsService
CHECK_DEADLOCK FALSE
