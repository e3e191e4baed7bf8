SPECIFICATION Spec
CONSTANTS
  Null = Null
  Objects <- MCObjects
  Stores <- MCStores
  Files <- MCFiles
INVARIANT LoadReturns
CHECK_DEADLOCK FALSE
