\* A task releases a mutex that it does not own.
SPECIFICATION MutexSpec
CONSTANTS
  Nil = Nil
  IdleTCB = Idle
  Tasks = {t1, t2}
  Objects = {m}
  Mutexes = {m}
  QueueSlots = 3
  HeapOrdered = TRUE
  Levels <- TwoLevels
  TickMod = 3
  NullData = 8
  Durations = {0}
  SleepAcrossWrap = FALSE
  TickInHandoff = TRUE
  TickInHeap = FALSE
  Spawning = FALSE
  MaxCalls = 4
  UIntMax = 3
  Recursive = FALSE
  Stray = {m}
SYMMETRY TaskSymmetry
INVARIANT StraySimplyReturns
