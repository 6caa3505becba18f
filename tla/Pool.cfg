\* Two tasks allocate two blocks and three give them back; a later task preempts an
\* earlier one.
SPECIFICATION PoolSpec
CONSTANTS
  Nil = Nil
  IdleTCB = Idle
  t1 = t1
  t2 = t2
  t3 = t3
  Tasks = {t1, t2, t3}
  Objects = {mux, sem}
  Mutexes = {mux}
  Semaphores = {sem}
  PoolMux = mux
  PoolSem = sem
  VectorWord = VectorWord
  Resources <- TwoBlocks
  Blocks = {1, 2}
  Allocators = {t1, t2}
  QueueSlots = 3
  HeapOrdered = TRUE
  Levels <- LastFirst
  TickMod = 2
  NullData = 8
  Durations = {0}
  SleepAcrossWrap = FALSE
  TickInHandoff = FALSE
  TickInHeap = FALSE
  Spawning = FALSE
  UIntMax = 3
  MaxCalls = 4
  Recursive = FALSE
  Stray = {}
  OverRelease = FALSE
INVARIANTS PoolTypeOK BlockInOnePlace NoPhantomBlock
PROPERTY AllocatorSpecHolds
