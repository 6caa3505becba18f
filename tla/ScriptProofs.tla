---------------------------- MODULE ScriptProofs ----------------------------
(***************************************************************************)
(* What the OS promises to every program of API calls, whatever the tasks, *)
(* priorities and calls of the demonstrations are: the kernel, the mutexes *)
(* and the semaphores keep their word when programs use mutexes, sleep,    *)
(* wait, notify, send, read, allocate and deallocate all at once.          *)
(***************************************************************************)
EXTENDS Script, SyncProofs

-----------------------------------------------------------------------------
\* Programs.

\* The objects about which programs call OS_Wait and OS_Notify.
Awaited ==
  {o \in Objects : \E d \in DOMAIN Demonstrations : \E i \in DOMAIN Demonstrations[d] :
     \E n \in DOMAIN Demonstrations[d][i].program :
       Demonstrations[d][i].program[n] \in {Wait(o), Notify(o)}}

\* Every task is at a line of its program, or past the last one.
InProgram ==
  /\ demo \in DOMAIN Demonstrations
  /\ line \in [Tasks -> Nat]
  /\ \A t \in DemoTasks : line[t] <= Len(ProgramOf(t))

\* The program of a task is one of the demonstration.
LEMMA ProgramTyped ==
  ASSUME demo \in DOMAIN Demonstrations, NEW t \in DemoTasks
  PROVE  /\ t \in Tasks
         /\ ProgramOf(t) \in Seq(Statements)
         /\ \E i \in DOMAIN Added : ProgramOf(t) = Demonstrations[demo][i].program
<1> DEFINE Entry == CHOOSE a \in Range(Added) : a.task = t
           Set   == [task : Tasks, priority : Nat, program : Seq(Statements)]
<1>1. Added \in Seq(Set)
  BY ScriptAssumption DEF Added
<1> HIDE DEF Set
<1>2. \A i \in DOMAIN Added : Added[i] \in Set
  BY <1>1
<1> USE DEF Set
<1>3. \E a \in Range(Added) : a.task = t
  BY DEF DemoTasks, Range
<1>4. Entry \in Range(Added) /\ Entry.task = t
  BY <1>3, Zenon
<1>5. ProgramOf(t) = Entry.program
  BY DEF ProgramOf
<1>6. PICK i \in DOMAIN Added : Entry = Added[i]
  BY <1>4 DEF Range
<1> HIDE DEF Entry
<1> QED
  BY <1>2, <1>4, <1>5, <1>6 DEF Added

\* What the statements name.
LEMMA StatementNames ==
  ASSUME NEW c \in Statements
  PROVE  /\ c.does \in {"OS_MutexAquire", "OS_MutexRelease"} => c.on \in Mutexes
         /\ c.does = "OS_Wait" => c.on \in Objects /\ c = Wait(c.on)
         /\ c.does = "OS_Notify" => c.on \in Objects /\ c = Notify(c.on)
<1>1. CASE \E m \in Mutexes : c = Aquire(m) \/ c = Release(m)
  BY <1>1 DEF Aquire, Release
<1>2. CASE \E o \in Objects : c = Wait(o) \/ c = Notify(o)
  BY <1>2 DEF Wait, Notify
<1>3. CASE \E n \in Durations \cup Tasks : c = Sleep(n) \/ c = Send(n)
  BY <1>3 DEF Sleep, Send
<1>4. CASE c \in {ReadOne, ReadAll}
  BY <1>4 DEF ReadOne, ReadAll
<1>5. CASE \E i \in 1 .. NPointers : c = Malloc(i) \/ c = Dalloc(i)
  BY <1>5 DEF Malloc, Dalloc
<1> QED
  BY <1>1, <1>2, <1>3, <1>4, <1>5 DEF Statements

\* The call a task makes next is a statement of its program.
LEMMA NextCallNames ==
  ASSUME InProgram, NEW t \in DemoTasks, ~AtEnd(t)
  PROVE  /\ line[t] + 1 <= Len(ProgramOf(t))
         /\ NextCall(t).does \in {"OS_MutexAquire", "OS_MutexRelease"} => NextCall(t).on \in Mutexes
         /\ NextCall(t).does \in {"OS_Wait", "OS_Notify"} => NextCall(t).on \in Awaited
<1>1. t \in Tasks /\ ProgramOf(t) \in Seq(Statements)
  BY ProgramTyped DEF InProgram
<1>2. line[t] \in Nat /\ line[t] <= Len(ProgramOf(t)) /\ line[t] # Len(ProgramOf(t))
  BY <1>1 DEF InProgram, AtEnd
<1>3. line[t] + 1 \in DOMAIN ProgramOf(t)
  BY <1>1, <1>2
<1>4. NextCall(t) \in Statements
  BY <1>1, <1>3 DEF NextCall
<1>5. PICK i \in DOMAIN Demonstrations[demo] :
             ProgramOf(t) = Demonstrations[demo][i].program
  BY ProgramTyped DEF InProgram, Added
<1>6. ASSUME NextCall(t).does \in {"OS_Wait", "OS_Notify"} PROVE NextCall(t).on \in Awaited
  <2>1. /\ NextCall(t).on \in Objects
        /\ NextCall(t) \in {Wait(NextCall(t).on), Notify(NextCall(t).on)}
    BY <1>4, <1>6, StatementNames
  <2>2. NextCall(t) = Demonstrations[demo][i].program[line[t] + 1]
    BY <1>5 DEF NextCall
  <2> QED
    BY <1>3, <1>5, <2>1, <2>2 DEF Awaited, InProgram
<1> QED
  BY <1>1, <1>2, <1>4, <1>6, StatementNames

\* A task advances by the calls it makes only.
LEMMA ScriptNextInProgram ==
  ASSUME InProgram, [ScriptNext]_scriptVars PROVE InProgram'
<1>1. ASSUME demo' = demo, line' = line PROVE InProgram'
  BY <1>1 DEF InProgram, DemoTasks, Added, ProgramOf
<1>2. ASSUME NEW t \in DemoTasks, ~AtEnd(t), Advance(t), demo' = demo PROVE InProgram'
  <2>1. t \in Tasks /\ line[t] + 1 <= Len(ProgramOf(t))
    BY <1>2, ProgramTyped, NextCallNames DEF InProgram
  <2>2. /\ DemoTasks' = DemoTasks
        /\ \A u \in DemoTasks : ProgramOf(u)' = ProgramOf(u)
    BY <1>2 DEF DemoTasks, ProgramOf, Added
  <2>3. line' = [line EXCEPT ![t] = line[t] + 1]
    BY <1>2 DEF Advance
  <2> QED
    BY <1>2, <2>1, <2>2, <2>3 DEF InProgram
<1>3. ASSUME NEW t \in DemoTasks, DemoCall(t) \/ DemoLoop(t)
      PROVE  line' = line \/ (~AtEnd(t) /\ Advance(t))
  BY <1>3 DEF DemoCall, DemoLoop, KernelCall, MutexCall, ItcCall, PoolCall, Begins
<1> QED
  BY <1>1, <1>2, <1>3 DEF ScriptNext, scriptVars, DemoBody, DemoReturn

-----------------------------------------------------------------------------
\* Every step of a program is one of a composition of mutexes and semaphores.

ScriptInv == SyncKept /\ InProgram

\* The steps of the queue and of the pool.
LEMMA FunctionSteps ==
  ASSUME NEW t \in Tasks,
         \/ \E dest : OS_ITCSendMsg(t, dest)
         \/ OS_ITCReadMsg(t) \/ ItcStep(t)
         \/ OS_Malloc(t) \/ PoolStep(t)
         \/ \E b : OS_Dalloc(t, b)
  PROVE  Entries(t) \/ UNCHANGED <<vars, syncVars>>
<1> USE ItcAssumption, MemPoolAssumption
<1>1. CASE \/ \E dest : OS_ITCSendMsg(t, dest)
           \/ OS_ITCReadMsg(t) \/ OS_Malloc(t)
  BY <1>1, CallsEnter DEF OS_ITCSendMsg, OS_ITCReadMsg, OS_Malloc
<1>2. CASE \E b : OS_Dalloc(t, b)
  BY <1>2 DEF OS_Dalloc, Enter, AtStage, Entries, Entering
<1>3. CASE TxTest(t) \/ RxTest(t) \/ MaTest(t)
  BY <1>3, CallsEnter DEF TxTest, RxTest, MaTest
<1>4. CASE TxLock(t) \/ RxLock(t) \/ MaLock(t)
  BY <1>4, CallsEnter DEF TxLock, RxLock, MaLock
<1>5. CASE TxUnlock(t) \/ RxUnlock(t) \/ MaUnlock(t) \/ DaUnlock(t)
  BY <1>5, CallsEnter DEF TxUnlock, RxUnlock, MaUnlock, DaUnlock
<1>6. CASE TxTake(t) \/ MaTake(t) \/ RxGive(t) \/ DaGive(t)
  BY <1>6, CallsEnter DEF TxTake, MaTake, RxGive, DaGive
<1>7. CASE \/ TxFind(t) \/ TxData(t) \/ TxDest(t) \/ EndOfCall(t, "tx_end")
           \/ RxFind(t) \/ RxCopy(t) \/ RxClear(t) \/ EndOfCall(t, "rx_end")
           \/ MaData(t) \/ MaNext(t) \/ MaReturn(t)
           \/ DaLink(t) \/ DaPush(t) \/ DaReturn(t)
  BY <1>7 DEF TxFind, TxData, TxDest, EndOfCall, RxFind, RxCopy, RxClear, MaData, MaNext,
              MaReturn, DaLink, DaPush, DaReturn, OwnStep
<1> QED
  BY <1>1, <1>2, <1>3, <1>4, <1>5, <1>6, <1>7 DEF ItcStep, PoolStep

LEMMA ScriptSyncStep ==
  ASSUME ScriptInv, [ScriptNext]_scriptVars PROVE SyncStep(Awaited)
<1> USE DEF ScriptInv
<1>1. CASE UNCHANGED scriptVars
  BY <1>1 DEF scriptVars, objectVars, SyncStep
<1>2. CASE Handlers /\ UNCHANGED objectVars
  BY <1>2 DEF objectVars, SyncStep
<1>3. ASSUME NEW t \in DemoTasks, DemoCall(t) PROVE SyncStep(Awaited)
  <2>0. t \in Tasks
    BY ProgramTyped DEF InProgram
  <2>1. CASE KernelCall(t) /\ UNCHANGED objectVars
    <3>1. CASE Begins(t, "OS_Sleep") /\ SleepCall(t)
      BY <2>0, <2>1, <3>1 DEF Begins, objectVars, SyncStep, OuterStep, TaskStep
    <3>2. CASE \/ Begins(t, "OS_Wait") /\ WaitCall(t, NextCall(t).on)
               \/ Begins(t, "OS_Notify") /\ OS_Notify(t, NextCall(t).on)
      <4>1. ApiCall(t, Awaited)
        BY <2>1, <3>2, NextCallNames DEF Begins, objectVars, ApiCall
      <4> QED
        BY <2>0, <4>1 DEF SyncStep
    <3> QED
      BY <2>1, <3>1, <3>2 DEF KernelCall
  <2>2. CASE MutexCall(t) /\ UNCHANGED <<semVars, taken>>
    <3>1. ApiCall(t, Awaited)
      BY <2>2, NextCallNames DEF MutexCall, Begins, ApiCall
    <3> QED
      BY <2>0, <3>1 DEF SyncStep
  <2>3. CASE ItcCall(t) \/ PoolCall(t)
    BY <2>0, <2>3, FunctionSteps DEF ItcCall, PoolCall, SyncStep
  <2> QED
    BY <1>3, <2>1, <2>2, <2>3 DEF DemoCall
<1>4. ASSUME NEW t \in DemoTasks, DemoLoop(t) \/ DemoReturn(t) PROVE SyncStep(Awaited)
  <2>1. t \in Tasks
    BY ProgramTyped DEF InProgram
  <2>2. OS_ITCReadMsg(t) \/ PoolStep(t) \/ UNCHANGED <<vars, syncVars>>
    BY <1>4 DEF DemoLoop, DemoReturn, objectVars, PoolStep
  <2> QED
    BY <2>1, <2>2, FunctionSteps DEF SyncStep
<1>5. ASSUME NEW t \in DemoTasks, DemoBody(t) PROVE SyncStep(Awaited)
  <2>1. t \in Tasks
    BY ProgramTyped DEF InProgram
  <2>2. CASE ItcStep(t) \/ PoolStep(t)
    BY <2>1, <2>2, FunctionSteps DEF SyncStep
  <2>3. CASE InnerStep(t)
    BY <2>1, <2>3 DEF SyncStep
  <2>4. CASE stage[t] = "none" /\ (SleepBody(t) \/ EndStep(t)) /\ UNCHANGED objectVars
    <3>1. OuterStep(t)
      BY <2>4 DEF SleepBody, TaskStep, OuterStep, objectVars
    <3> QED
      BY <2>1, <3>1 DEF SyncStep
  <2> QED
    BY <1>5, <2>2, <2>3, <2>4 DEF DemoBody
<1> QED
  BY <1>1, <1>2, <1>3, <1>4, <1>5 DEF ScriptNext

LEMMA ScriptInvariant == ScriptSpec => []ScriptInv
<1>1. ScriptInit => ScriptInv
  <2> SUFFICES ASSUME ScriptInit PROVE ScriptInv
    OBVIOUS
  <2>1. \A t \in DemoTasks : t \in Tasks /\ Len(ProgramOf(t)) \in Nat
    BY ProgramTyped DEF ScriptInit
  <2>2. InProgram
    BY <2>1 DEF ScriptInit, InProgram
  <2> QED
    BY <2>2, SyncInitKept DEF ScriptInit, ItcInit, ScriptInv
<1>2. ScriptInv /\ [ScriptNext]_scriptVars => ScriptInv'
  BY ScriptSyncStep, SyncStepKept, ScriptNextInProgram DEF ScriptInv, Awaited
<1> QED
  BY <1>1, <1>2, PTL DEF ScriptSpec

-----------------------------------------------------------------------------
\* So programs can rely on the mutexes, the semaphores and the kernel.

\* Whatever programs do, and also if they release mutexes they do not hold, ownership of
\* a mutex passes only through "free", only to a task that asked, and only the owner
\* gives it up.
THEOREM ScriptMutexesAreLocks == ScriptSpec => LockSpecHolds
<1>1. ScriptInit => Lock!Init
  BY SyncInitPromises DEF ScriptInit, ItcInit
<1>2. ScriptInv /\ [ScriptNext]_scriptVars => [Lock!Next]_<<Owner, Asking>>
  BY ScriptSyncStep, SyncStepLock DEF ScriptInv, Awaited
<1> QED
  BY <1>1, <1>2, ScriptInvariant, PTL
  DEF ScriptSpec, LockSpecHolds, Lock!Spec, Owner, Asking

\* The semaphores of the queue and of the pool, used by the same tasks at the same time,
\* give every resource to one caller and take it back once.
THEOREM ScriptSemaphoresCount ==
  ASSUME SizesBelowWrap PROVE ScriptSpec => SemaphoreSpecHolds
<1>1. ScriptInit => Counting!Init
  BY SyncInitPromises DEF ScriptInit, ItcInit
<1>2. ScriptInv /\ [ScriptNext]_scriptVars => [Counting!Next]_<<counter, SemAsking, SemGiving>>
  BY ScriptSyncStep, SyncStepCounting DEF ScriptInv, Awaited
<1> QED
  BY <1>1, <1>2, ScriptInvariant, PTL
  DEF ScriptSpec, SemaphoreSpecHolds, Counting!Spec, SemAsking, SemGiving

\* Who got a mutex that only its owners release is its owner and is counted once, whatever
\* else the programs do.
THEOREM ScriptHeldOwned == ScriptSpec => []HeldIsOwned
<1>1. ScriptInit => CountsOwner
  BY SyncInitPromises DEF ScriptInit, ItcInit
<1>2. ScriptInv /\ CountsOwner /\ [ScriptNext]_scriptVars => CountsOwner'
  BY ScriptSyncStep, SyncReleasesHeld, SyncStepCounts DEF ScriptInv
<1>3. ScriptInv /\ CountsOwner => HeldIsOwned
  BY OwnedCountedHeld DEF ScriptInv
<1> QED
  BY <1>1, <1>2, <1>3, ScriptInvariant, PTL DEF ScriptSpec

\* Every task stays in one queue.
LEMMA ScriptPlaced == ASSUME Closed PROVE ScriptSpec => [](ScriptInv /\ Placed)
<1>1. ScriptInit => Placed
  BY SyncInitPromises DEF ScriptInit, ItcInit
<1>2. ScriptInv /\ Placed /\ [ScriptNext]_scriptVars => Placed'
  BY ScriptSyncStep, SyncStepPlaced DEF ScriptInv, Awaited
<1> QED
  BY <1>1, <1>2, ScriptInvariant, PTL DEF ScriptSpec

\* Until a SysTick falls inside a heap operation of OS_Sleep, no program drops a task from
\* the queues of the kernel or gets it into two, however its sleeps, waits, notifications
\* and calls of mutexes, queue and pool interleave.
THEOREM ScriptTasksKept == ASSUME Closed PROVE ScriptSpec => []ExactlyOneQueue
BY ScriptPlaced, PlacedOnce, PTL

\* While a task waits for a mutex that only its owners release, another one that does not is
\* bound to notify it or to take it, if the programs never acquire a mutex that their task
\* holds, and leave the waiting queues of the mutexes to the mutexes.
THEOREM ScriptMutexWakeups ==
  ASSUME Closed, Awaited \cap Mutexes = {}
  PROVE  ScriptSpec /\ [][AcquiresNew]_scriptVars => []NoLostWakeup
<1>1. ScriptInit => WaitsApart /\ Wakeups /\ CountsOwner /\ OwnerBound
  BY SyncInitPromises DEF ScriptInit, ItcInit
<1>2. ASSUME ScriptInv, Placed, WaitsApart, Wakeups, CountsOwner, OwnerBound,
             [ScriptNext]_scriptVars, [AcquiresNew]_scriptVars
      PROVE  (WaitsApart /\ Wakeups /\ CountsOwner /\ OwnerBound)'
  <2>1. SyncKept /\ SyncStep(Awaited)
    BY <1>2, ScriptSyncStep DEF ScriptInv
  <2>2. ReleasesHeld
    BY <2>1, SyncReleasesHeld
  <2>3. AcquiresNew
    <3>1. scriptVars' = scriptVars => pc' = pc
      BY DEF scriptVars, vars, taskVars
    <3> QED
      BY <1>2, <3>1 DEF AcquiresNew, AcquireLabels
  <2> QED
    BY <1>2, <2>1, <2>2, <2>3, SyncStepWaits, SyncStepWakeups, SyncStepCounts, SyncStepBound
<1>3. ScriptInv /\ Wakeups /\ OwnerBound => NoLostWakeup
  BY WakeupBound DEF ScriptInv, SyncKept, SyncShape
<1> QED
  BY <1>1, <1>2, <1>3, ScriptPlaced, PTL DEF ScriptSpec

=============================================================================
