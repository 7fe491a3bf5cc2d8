CONSTANTS
  Apps = {a1}
  None = None
  MaxTransport = 2
  MaxId = 3
  MaxOps = 1
  MaxQueue = 2
  OtherIds <- NoIds
  MaxOthers = 0
  Ops <- LaunchOnly
  Env <- LaunchFails
SPECIFICATION FairSpec
CHECK_DEADLOCK FALSE
PROPERTIES
  LaunchIsReported
