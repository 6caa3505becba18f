\* A reader that outranks the sender reads without asking OS_ITCHasMsg.
SPECIFICATION ItcSpec
CONSTANTS
  Nil = Nil
  IdleTCB = Idle
  t1 = t1
  t2 = t2
  t3 = t3
  Tasks = {t1, t2}
  Objects = {mux, sem}
  Mutexes = {mux}
  Semaphores = {sem}
  QueueMux = mux
  QueueSem = sem
  NoData = NoData
  Resources <- OneSlot
  Routes <- OneWay
  Guarded = FALSE
  QueueSlots = 3
  HeapOrdered = TRUE
  Levels <- ReaderFirst
  TickMod = 2
  NullData = 8
  Durations = {0}
  SleepAcrossWrap = FALSE
  TickInHandoff = FALSE
  TickInHeap = FALSE
  Spawning = FALSE
  UIntMax = 3
  MaxCalls = 4
  Recursive = FALSE
  Stray = {}
  OverRelease = FALSE
INVARIANT ReadFindsMessage
