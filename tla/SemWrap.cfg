\* A semaphore with as many resources as its counter can count.
SPECIFICATION SemSpec
CONSTANTS
  Nil = Nil
  IdleTCB = Idle
  Tasks = {t1, t2}
  Objects = {s}
  Semaphores = {s}
  Resources <- AllCounterHolds
  QueueSlots = 3
  HeapOrdered = TRUE
  Levels <- TwoLevels
  TickMod = 3
  NullData = 8
  Durations = {0}
  SleepAcrossWrap = FALSE
  TickInHandoff = TRUE
  TickInHeap = FALSE
  Spawning = FALSE
  UIntMax = 2
  MaxCalls = 3
  OverRelease = TRUE
SYMMETRY TaskSymmetry
PROPERTY ReleaseNeverLowers
