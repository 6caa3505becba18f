\* A task acquires a mutex it owns.
SPECIFICATION MutexFairSpec
CONSTANTS
  Nil = Nil
  IdleTCB = Idle
  Tasks = {t1}
  Objects = {m}
  Mutexes = {m}
  QueueSlots = 3
  HeapOrdered = TRUE
  Levels <- OneLevel
  TickMod = 4
  NullData = 8
  Durations = {1}
  SleepAcrossWrap = FALSE
  TickInHandoff = TRUE
  TickInHeap = FALSE
  Spawning = FALSE
  MaxCalls = 2
  UIntMax = 3
  Recursive = TRUE
  Stray = {}
PROPERTY RecursiveAcquireReturns
