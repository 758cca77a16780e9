SPECIFICATION Spec
CONSTANTS
  ConfigBase = 20
  ConfigMin = 0
  ConfigMax = 23
  Loads <- SomeLoads
  Stoppers = {s1, s2}
INVARIANTS
  TypeOK
  ClosedOnce
PROPERTIES
  UpdateLoopReturns
  LoadIsFollowed
