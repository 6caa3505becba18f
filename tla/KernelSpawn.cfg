\* Running tasks add tasks too, the heap's order is not relied on, and the word a
\* null TCB yields for ->data is small.  A fault stops the core: deadlock is not
\* checked.
SPECIFICATION Spec
CONSTANTS
  Nil = Nil
  IdleTCB = Idle
  Tasks = {t1, t2, t3}
  Objects = {q}
  QueueSlots = 3
  HeapOrdered = FALSE
  Levels <- TwoLevels
  TickMod = 4
  NullData = 1
  Durations = {0, 1}
  SleepAcrossWrap = FALSE
  TickInHandoff = TRUE
  TickInHeap = TRUE
  Spawning = TRUE
  UIntMax = 3
  MaxCalls = 3
SYMMETRY TaskSymmetry
INVARIANTS ReadyRuns
PROPERTY SleepsItsTime
CHECK_DEADLOCK FALSE
