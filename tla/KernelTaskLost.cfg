\* A SysTick between the two queue operations of FPS_TaskSleepCallback.
SPECIFICATION Spec
CONSTANTS
  Nil = Nil
  IdleTCB = Idle
  Tasks = {t1, t2}
  Objects = {q}
  QueueSlots = 3
  HeapOrdered = TRUE
  Levels <- TwoLevels
  TickMod = 4
  NullData = 8
  Durations = {0, 1}
  SleepAcrossWrap = FALSE
  TickInHandoff = TRUE
  TickInHeap = FALSE
  Spawning = FALSE
  UIntMax = 3
  MaxCalls = 3
SYMMETRY TaskSymmetry
INVARIANT NoTaskLost
