CONSTANTS
  Objs = {m1, m2}
  Texts = {0, 2}
  Packets <- SomePackets
  Added <- SomeTokens
  MaxSteps = 2
SYMMETRY Symmetry
SPECIFICATION Spec
CHECK_DEADLOCK FALSE
INVARIANTS
  AbsentIsDefault
  StringsAreOwned
  LoadIsLastValid
  LoadedIsSaved
