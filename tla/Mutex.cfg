\* Three tasks on two levels share two mutexes, of which they also release n when they do
\* not own it, and sleep.
SPECIFICATION MutexSpec
CONSTANTS
  Nil = Nil
  IdleTCB = Idle
  Tasks = {t1, t2, t3}
  Objects = {m, n}
  Mutexes = {m, n}
  QueueSlots = 3
  HeapOrdered = TRUE
  Levels <- TwoLevels
  TickMod = 3
  NullData = 8
  Durations = {0}
  SleepAcrossWrap = FALSE
  TickInHandoff = TRUE
  TickInHeap = FALSE
  Spawning = FALSE
  MaxCalls = 4
  UIntMax = 3
  Recursive = FALSE
  Stray = {n}
SYMMETRY TaskSymmetry
INVARIANTS MutexTypeOK MutualExclusion HeldIsOwned NoLostWakeup
PROPERTY LockSpecHolds
