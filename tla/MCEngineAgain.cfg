SPECIFICATION Spec
CONSTANTS
  t1 = t1
  t2 = t2
  t3 = t3
  Threads <- MCThreads
  Again = TRUE
  Sessions = 3
  Null = Null
SYMMETRY Symmetry
CHECK_DEADLOCK FALSE
INVARIANT UsableWhenHeld
