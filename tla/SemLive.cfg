\* Two tasks of different priority share one resource, which they give back.
SPECIFICATION SemFairSpec
CONSTANTS
  Nil = Nil
  IdleTCB = Idle
  Tasks = {t1, t2}
  Objects = {s}
  Semaphores = {s}
  Resources <- One
  QueueSlots = 3
  HeapOrdered = TRUE
  Levels <- DistinctLevels
  TickMod = 3
  NullData = 8
  Durations = {0}
  SleepAcrossWrap = FALSE
  TickInHandoff = FALSE
  TickInHeap = FALSE
  Spawning = FALSE
  UIntMax = 3
  MaxCalls = 5
  OverRelease = FALSE
INVARIANT ResourcesConserved
PROPERTIES SemWaiterServed SleeperWakes
