CONSTANTS
  Base = 2
  HeaderSize = 2
  Bodies <- SomeBodies
  Ping <- APing
  MaxPackets = 2
  MaxSends = 3
  MaxErrors = 2
  Programs = {"A", "B", "other"}
SPECIFICATION FairSpec
CHECK_DEADLOCK FALSE
INVARIANTS
  FramingIsExact
  ConnectComesFirst
PROPERTIES
  PacketsArrive
  PingsAreAnswered
  CloseEndsRun
  FailureEndsRun
