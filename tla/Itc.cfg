\* t1 sends to t2 and t3, t2 sends to t3; a later task preempts an earlier one.
SPECIFICATION ItcSpec
CONSTANTS
  Nil = Nil
  IdleTCB = Idle
  t1 = t1
  t2 = t2
  t3 = t3
  Tasks = {t1, t2, t3}
  Objects = {mux, sem}
  Mutexes = {mux}
  Semaphores = {sem}
  QueueMux = mux
  QueueSem = sem
  NoData = NoData
  Resources <- TwoSlots
  Routes <- Chain
  Guarded = TRUE
  QueueSlots = 3
  HeapOrdered = TRUE
  Levels <- LastFirst
  TickMod = 2
  NullData = 8
  Durations = {0}
  SleepAcrossWrap = FALSE
  TickInHandoff = FALSE
  TickInHeap = FALSE
  Spawning = FALSE
  UIntMax = 3
  MaxCalls = 5
  Recursive = FALSE
  Stray = {}
  OverRelease = FALSE
INVARIANTS ItcTypeOK BufferIntegrity NoPhantomSlot
PROPERTIES GuardedReadDelivers MailboxSpecHolds
