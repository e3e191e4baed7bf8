SPECIFICATION FairSpec
CONSTANTS
  Threads = {t1, t2}
  NoThread = NoThread
  LockOutcomes = {"live", "null"}
  MaxCalls = 3
  MaxBits = 2
INVARIANTS
  TypeOK
  MutualExclusion
  SuccessIsSeeded
  NoStateReused
  CallsAreAtomic
  SeededOnce
  FreedWhenQuiet
PROPERTY EveryCallReturns
CHECK_DEADLOCK FALSE
