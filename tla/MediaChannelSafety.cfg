CONSTANTS
  MaxSession = 2
  MaxId = 3
  MaxOps = 2
  MaxOthers = 2
  OtherIds = {0, 2}
  Env <- AnyEvent
SPECIFICATION Spec
CHECK_DEADLOCK FALSE
INVARIANTS
  TypeOK
  StatusIsCurrent
  CommandsFitTheSession
  AnswersAreExpected
