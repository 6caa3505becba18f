\* SysTicks inside the heap operations too.
SPECIFICATION HeapSpec
CONSTANTS
  Nil = Nil
  IdleTCB = Idle
  Tasks = {t1, t2, t3}
  Objects = {q}
  QueueSlots = 6
  HeapOrdered = TRUE
  Levels <- TwoLevels
  TickMod = 4
  NullData = 8
  Durations = {0, 1}
  SleepAcrossWrap = FALSE
  TickInHandoff = TRUE
  TickInHeap = TRUE
  Spawning = FALSE
  UIntMax = 3
  MaxCalls = 3
SYMMETRY TaskSymmetry
INVARIANT FrontOutranks
