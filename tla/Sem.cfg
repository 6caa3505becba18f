\* Three tasks on two levels acquire, release more than they have, count and sleep.
SPECIFICATION SemSpec
CONSTANTS
  Nil = Nil
  IdleTCB = Idle
  Tasks = {t1, t2, t3}
  Objects = {s}
  Semaphores = {s}
  Resources <- Two
  QueueSlots = 3
  HeapOrdered = TRUE
  Levels <- TwoLevels
  TickMod = 2
  NullData = 8
  Durations = {0}
  SleepAcrossWrap = FALSE
  TickInHandoff = TRUE
  TickInHeap = FALSE
  Spawning = FALSE
  UIntMax = 3
  MaxCalls = 4
  OverRelease = TRUE
SYMMETRY TaskSymmetry
INVARIANTS SemTypeOK CountWithinSize SemNoLostWakeup
PROPERTY SemaphoreSpecHolds
