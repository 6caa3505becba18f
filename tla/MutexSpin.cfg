\* Two tasks of one level.
SPECIFICATION MutexFairSpec
CONSTANTS
  Nil = Nil
  IdleTCB = Idle
  Tasks = {t1, t2}
  Objects = {m}
  Mutexes = {m}
  QueueSlots = 3
  HeapOrdered = TRUE
  Levels <- OneLevel
  TickMod = 3
  NullData = 8
  Durations = {0}
  SleepAcrossWrap = FALSE
  TickInHandoff = FALSE
  TickInHeap = FALSE
  Spawning = FALSE
  MaxCalls = 5
  UIntMax = 3
  Recursive = FALSE
  Stray = {}
PROPERTY OwnedMeansWait
