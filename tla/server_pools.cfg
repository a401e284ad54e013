SPECIFICATION Spec
CONSTANTS
  p1 = p1
  p2 = p2
  r1 = r1
  h1 = h1
  Calls <- MCCalls
  KindOf <- MCKindOf
  Threads = 2
  Connections = 1
INVARIANTS TypeOK StuckOnBothPools
PROPERTY EveryCallEnds
CHECK_DEADLOCK FALSE
