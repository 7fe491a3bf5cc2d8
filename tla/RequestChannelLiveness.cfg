CONSTANTS
  Channels = {ch1}
  Calls = {c1, c2}
  None = None
  MaxId = 5
  Unreliable = 3
  Env <- SlowReceiver
SPECIFICATION FairSpec
CHECK_DEADLOCK FALSE
INVARIANTS
  AnswersNeverHalt
PROPERTIES
  RequestsComplete
  RetriesStop
