\* The eight demonstrations in full; 500 ticks of sleep are 1.
SPECIFICATION ScriptSpec
CONSTANTS
  Nil = Nil
  IdleTCB = Idle
  T1 = t1
  T2 = t2
  T3 = t3
  T4 = t4
  T5 = t5
  T6 = t6
  Tasks = {t1, t2, t3, t4, t5, t6}
  Mux = m
  WaitQueue = w
  QueueMux = qm
  QueueSem = qs
  PoolMux = pm
  PoolSem = ps
  Objects = {m, w, qm, qs, pm, ps}
  Mutexes = {m, qm, pm}
  Semaphores = {qs, ps}
  NoData = NoData
  VectorWord = V
  Blocks = {1, 2, 3}
  Resources <- DemoResources
  Routes <- NoRoutes
  Guarded = FALSE
  Allocators = {t1}
  NPointers = 5
  QueueSlots = 10
  HeapOrdered = FALSE
  Levels <- AnyLevel
  TickMod = 40
  NullData = 80
  Durations = {2, 6, 8, 10, 12, 20}
  SleepAcrossWrap = FALSE
  TickInHandoff = FALSE
  TickInHeap = FALSE
  Spawning = FALSE
  UIntMax = 31
  MaxCalls = 60
  Recursive = FALSE
  Stray = {}
  OverRelease = FALSE
  Demonstrations <- AllDemonstrations
  MaxBusyTicks = 3
INVARIANTS MuxInTurn BasicInPriorityOrder NotifiedInTurn ReceiverWaitsFirst FreedBlockReused
PROPERTIES EarlyMessagesLast AllDelivered DemoEnds
