\* Four tasks that sleep; SysTicks between, not inside, the heap operations.
\* A fault stops the core: deadlock is not checked.
SPECIFICATION HeapSpec
CONSTANTS
  Nil = Nil
  IdleTCB = Idle
  Tasks = {t1, t2, t3, t4}
  Objects = {q}
  QueueSlots = 4
  HeapOrdered = TRUE
  Levels <- TwoLevels
  TickMod = 4
  NullData = 1
  Durations = {0, 1}
  SleepAcrossWrap = FALSE
  TickInHandoff = TRUE
  TickInHeap = FALSE
  Spawning = FALSE
  UIntMax = 3
  MaxCalls = 3
SYMMETRY TaskSymmetry
PROPERTY KernelSpecHolds
CHECK_DEADLOCK FALSE
