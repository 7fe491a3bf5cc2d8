CONSTANTS
  Apps = {a1, a2}
  None = None
  MaxTransport = 2
  MaxId = 4
  MaxOps = 3
  MaxQueue = 2
  OtherIds <- SomeIds
  MaxOthers = 1
  Ops <- AnyCall
  Env <- AnyEvent
SPECIFICATION Spec
SYMMETRY Symmetric
CHECK_DEADLOCK FALSE
INVARIANTS
  TypeOK
  RegistryIsExact
  AnswersFindTheirRequest
  LaunchCallbackIsOwn
  OnlyCurrentIsInitializing
  
