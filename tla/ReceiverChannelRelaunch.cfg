CONSTANTS
  Apps = {a1, a2}
  None = None
  MaxTransport = 2
  MaxId = 4
  MaxOps = 2
  MaxQueue = 2
  OtherIds <- NoIds
  MaxOthers = 0
  Ops <- LaunchOnly
  Env <- VolumeChanges
SPECIFICATION Spec
CHECK_DEADLOCK FALSE
INVARIANTS
  AddressesAreUnique
