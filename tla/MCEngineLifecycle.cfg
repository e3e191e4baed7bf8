SPECIFICATION Spec
CONSTANTS
  t1 = t1
  t2 = t2
  t3 = t3
  Threads <- MCThreads
  Again = FALSE
  Sessions = 4
  Null = Null
SYMMETRY Symmetry
INVARIANTS
  NoDangling
  MethodsFreed
  UsableWhenHeld
CHECK_DEADLOCK FALSE
