CONSTANTS
  S = 5
  R = 30
  MaxDelay = 27
  MaxStarts = 2
  Env <- AnyEvent
SPECIFICATION FairSpec
CHECK_DEADLOCK FALSE
INVARIANTS
  TimeoutOnlyOnStall
  PingsOnTime
PROPERTIES
  NoCleanRestart
