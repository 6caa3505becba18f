\* Two readers, one of which outranks the sender and the other reader.
SPECIFICATION ItcSpec
CONSTANTS
  Nil = Nil
  IdleTCB = Idle
  t1 = t1
  t2 = t2
  t3 = t3
  Tasks = {t1, t2, t3}
  Objects = {mux, sem}
  Mutexes = {mux}
  Semaphores = {sem}
  QueueMux = mux
  QueueSem = sem
  NoData = NoData
  Resources <- TwoSlots
  Routes <- TwoReaders
  Guarded = TRUE
  QueueSlots = 3
  HeapOrdered = TRUE
  Levels <- ThirdFirst
  TickMod = 2
  NullData = 8
  Durations = {0}
  SleepAcrossWrap = FALSE
  TickInHandoff = FALSE
  TickInHeap = FALSE
  Spawning = FALSE
  UIntMax = 3
  MaxCalls = 5
  Recursive = FALSE
  Stray = {}
  OverRelease = FALSE
INVARIANT CountMatchesBuffer
