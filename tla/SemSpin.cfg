\* Two tasks of different priority share one resource.
SPECIFICATION SemFairSpec
CONSTANTS
  Nil = Nil
  IdleTCB = Idle
  Tasks = {t1, t2}
  Objects = {s}
  Semaphores = {s}
  Resources <- One
  QueueSlots = 3
  HeapOrdered = TRUE
  Levels <- DistinctLevels
  TickMod = 3
  NullData = 8
  Durations = {0}
  SleepAcrossWrap = FALSE
  TickInHandoff = FALSE
  TickInHeap = FALSE
  Spawning = FALSE
  UIntMax = 3
  MaxCalls = 3
  OverRelease = FALSE
PROPERTY EmptyMeansWait
