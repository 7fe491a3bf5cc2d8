CONSTANTS
  MaxLevel = 2
  Tolerance = 2
  Apps <- TwoApps
  MaxCalls = 2
  MaxAttempts = 2
  MaxQueue = 1
  MaxChanges = 2
  Env <- AnyEvent
SPECIFICATION StatusSpec
CHECK_DEADLOCK FALSE
INVARIANTS
  LastStatusIsCurrent
  
