CONSTANTS
  Sources <- TwoSources
  Namespaces <- TwoNamespaces
  Destinations <- TwoDestinations
  Star = 1
  None = None
SPECIFICATION Spec
CHECK_DEADLOCK FALSE
INVARIANTS
  LookupsAreExact
  BroadcastReachesAll
