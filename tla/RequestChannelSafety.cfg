CONSTANTS
  Channels = {ch1, ch2}
  Calls = {c1, c2}
  None = None
  MaxId = 4
  Unreliable = 4
  Env <- AnyFault
SPECIFICATION Spec
SYMMETRY Symmetric
CHECK_DEADLOCK FALSE
INVARIANTS
  TypeOK
  SingleTimer
  RetryNeverLost
  AnswerFindsEntry
PROPERTIES
  CompletedOnce
  KeepsPromise
