\* One task allocates, and outranks the one that gives blocks back.
SPECIFICATION PoolSpec
CONSTANTS
  Nil = Nil
  IdleTCB = Idle
  t1 = t1
  t2 = t2
  t3 = t3
  Tasks = {t1, t2}
  Objects = {mux, sem}
  Mutexes = {mux}
  Semaphores = {sem}
  PoolMux = mux
  PoolSem = sem
  VectorWord = VectorWord
  Resources <- OneBlock
  Blocks = {1}
  Allocators = {t1}
  QueueSlots = 3
  HeapOrdered = TRUE
  Levels <- FirstFirst
  TickMod = 2
  NullData = 8
  Durations = {0}
  SleepAcrossWrap = FALSE
  TickInHandoff = FALSE
  TickInHeap = FALSE
  Spawning = FALSE
  UIntMax = 3
  MaxCalls = 5
  Recursive = FALSE
  Stray = {}
  OverRelease = FALSE
INVARIANT PoolNotEmptied
