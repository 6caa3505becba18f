----------------------------- MODULE SyncProofs -----------------------------
(***************************************************************************)
(* What SyncCalls keeps of the mutexes and the semaphores it combines: the *)
(* lemmas that the proofs about the functions of OS/itc_queue.c and        *)
(* OS/memory.c share.                                                      *)
(***************************************************************************)
EXTENDS SyncCalls, MutexProofs, SemaphoreProofs

-----------------------------------------------------------------------------
\* The invariant of the calls.

SyncShape == MutexShape /\ SemShape /\ Started /\ WaitNamesObject

SyncKept == SyncShape /\ Owned /\ Counted

\* The steps of a call, whichever.
CallLabels == AcquireLabels \cup ReleaseLabels \cup SemLabels \cup {"wait_svc"}

\* The labels of one call each: a call that is not over goes on with the same.
ReadCount == {"gc_ldrex", "gc_strex"}
Taking    == SemAcquireLabels \cup {"sa_notify"}
Giving    == {"sr_ldrex", "sr_strex", "sr_notify"}
CallKinds == {AcquireLabels, ReleaseLabels, ReadCount, Taking, Giving, {"wait_svc"}}

\* A task that runs a function is in the function itself or in a call it makes.
FunctionsCall == \A t \in Tasks : pc[t] \notin {"user"} \cup CallLabels => stage[t] = "none"

\* A function of task t calls one whose first step is label about object o.
Entering(t, label, o) ==
  /\ Executing(t, "user")
  /\ Goto(t, label)
  /\ arg' = [arg EXCEPT ![t] = o]
  /\ \/ check' = check
     \/ check' = [check EXCEPT ![t] = checkCode]
  /\ UNCHANGED <<kernelVars, calls, mutexVars, counter, taken>>
  /\ loaded' = loaded \/ loaded' = [loaded EXCEPT ![t] = 0]

\* The calls the functions make.
Entries(t) ==
  \/ \E m \in Mutexes : Entering(t, "aq_ldrex", m)
  \/ \E s \in Semaphores, label \in {"sa_ldrex", "sr_ldrex", "wait_svc"} :
       Entering(t, label, s)
  \/ \E s \in Semaphores : GetCountCall(t, s) /\ UNCHANGED <<mutexVars, taken>>
  \/ \E m \in Mutexes : ReleaseCall(t, m) /\ UNCHANGED <<semVars, taken>>

\* The calls a program makes itself: of a mutex, and of OS_Wait and OS_Notify about the
\* objects of O.
ApiCall(t, O) ==
  \/ /\ \E m \in Mutexes : AcquireCall(t, m) \/ ReleaseCall(t, m)
     /\ UNCHANGED <<semVars, taken>>
  \/ /\ \E o \in O : WaitCall(t, o) \/ OS_Notify(t, o)
     /\ UNCHANGED syncVars

\* The steps of SyncCalls that start a call.
LEMMA CallsEnter ==
  ASSUME NEW t \in Tasks, NEW m \in Mutexes, NEW s \in Semaphores, NEW from, NEW to,
         NEW mustWait, NEW waited,
         \/ CallCounting(t, s, to)
         \/ WaitOrLock(t, from, mustWait, s, m, waited, to)
         \/ CallMutexAquire(t, from, m, to)
         \/ CallMutexRelease(t, from, m, to)
         \/ CallSemaphoreAquire(t, from, s, to)
         \/ CallSemaphoreRelease(t, from, s, to)
  PROVE  Entries(t)
<1>1. CASE CallCounting(t, s, to)
  BY <1>1 DEF CallCounting, Entries
<1>2. CASE CallMutexRelease(t, from, m, to)
  BY <1>2 DEF CallMutexRelease, Entries
<1>3. ASSUME NEW label, NEW o, NEW next0, Executing(t, "user"), Enter(t, label, o, next0),
             loaded' = loaded \/ loaded' = [loaded EXCEPT ![t] = 0]
      PROVE  Entering(t, label, o)
  BY <1>3 DEF Enter, Entering
<1>4. CASE WaitOrLock(t, from, mustWait, s, m, waited, to)
  <2>1. CASE mustWait
    <3>1. Entering(t, "wait_svc", s)
      BY <1>3, <1>4, <2>1 DEF WaitOrLock, AtStage
    <3> QED
      BY <3>1 DEF Entries
  <2>2. CASE ~mustWait
    <3>1. Entering(t, "aq_ldrex", m)
      BY <1>3, <1>4, <2>2 DEF WaitOrLock, AtStage
    <3> QED
      BY <3>1 DEF Entries
  <2> QED
    BY <2>1, <2>2
<1>5. CASE CallMutexAquire(t, from, m, to)
  <2>1. Entering(t, "aq_ldrex", m)
    BY <1>3, <1>5 DEF CallMutexAquire, AtStage
  <2> QED
    BY <2>1 DEF Entries
<1>6. CASE CallSemaphoreAquire(t, from, s, to)
  <2>1. Entering(t, "sa_ldrex", s)
    BY <1>3, <1>6 DEF CallSemaphoreAquire, AtStage
  <2> QED
    BY <2>1 DEF Entries
<1>7. CASE CallSemaphoreRelease(t, from, s, to)
  <2>1. Entering(t, "sr_ldrex", s)
    BY <1>3, <1>7 DEF CallSemaphoreRelease, AtStage
  <2> QED
    BY <2>1 DEF Entries
<1> QED
  BY <1>1, <1>2, <1>4, <1>5, <1>6, <1>7

\* The initial state.
LEMMA SyncInitKept == SyncInit => SyncKept
<1> SUFFICES ASSUME SyncInit PROVE SyncKept
  OBVIOUS
<1>1. MutexTyped /\ Typed
  BY MutexInitTyped, InitTyped DEF SyncInit, MutexInit
<1>2. MutexShape /\ WaitNamesObject /\ Started
  BY <1>1, TypedShape DEF Typed
<1>3. CountersTyped
  BY CounterWidth, SemaphoreAssumption DEF SyncInit, CountersTyped
<1>4. \A t \in Tasks : pc[t] = "dormant"
  BY KernelAssumption DEF SyncInit, MutexInit, Init
<1>5. SemShape
  BY <1>2, <1>3, <1>4
  DEF MutexShape, SemShape, CallNamesSemaphore, SemLabels, SemAcquireLabels
<1>6. Owned
  BY <1>4 DEF SyncInit, MutexInit, Init, Owned, HoldersOwn, CallersOwn, ReleasersLeft,
              MonitorFree, OwnerLabels, ReleaseLabels
<1>7. Counted
  BY SemaphoreAssumption DEF SyncInit, MutexInit, Init, Counted, CountWithinSize,
                             RegisterCurrent
<1> QED
  BY <1>2, <1>5, <1>6, <1>7 DEF SyncKept, SyncShape

-----------------------------------------------------------------------------
\* Every step of SyncCalls keeps the invariant.

\* A step of the kernel, or of a task outside the calls.
LEMMA OtherStepKept ==
  ASSUME SyncKept, Handlers \/ \E t \in Tasks : TaskStep(t) \/ EndStep(t),
         UNCHANGED syncVars
  PROVE  SyncKept'
<1> USE DEF SyncKept, SyncShape
<1>1. KernelTyped' /\ Started'
  <2>1. CASE Handlers
    BY <2>1, HandlersTyped, HandlersStarted DEF SemShape
  <2>2. ASSUME NEW t \in Tasks, TaskStep(t) \/ EndStep(t) PROVE KernelTyped' /\ Started'
    BY <2>2, KernelStepTyped, KernelStepCurrent, QueueAssumption
    DEF EndStep, SemShape, Started
  <2> QED
    BY <2>1, <2>2
<1>2. /\ PcDomain' /\ arg' = arg
      /\ \A u \in Tasks : pc'[u] = pc[u] \/ {pc[u], pc'[u]} \subseteq TaskLabels
  BY KernelStepPc DEF EndStep, SemShape
<1>3. /\ UNCHANGED mutexVars /\ mux' = mux /\ held' = held
      /\ UNCHANGED semVars /\ counter' = counter /\ loaded' = loaded
  BY DEF syncVars, mutexVars, semVars
<1>4. MuxTyped' /\ CallNamesMutex'
  BY <1>2, <1>3
  DEF MutexShape, MuxTyped, CallNamesMutex, AcquireLabels, ReleaseLabels, TaskLabels, KernelLabels
<1>5. CountersTyped' /\ CallNamesSemaphore'
  BY <1>2, <1>3
  DEF SemShape, CountersTyped, CallNamesSemaphore, SemLabels, SemAcquireLabels,
      TaskLabels, KernelLabels
<1>6. WaitNamesObject'
  BY <1>2 DEF WaitNamesObject, TaskLabels
<1>7. Owned'
  BY <1>3, OtherStepOwned DEF MutexShape
<1>8. Counted'
  BY <1>3, SemOtherStepCounted DEF SemShape, EndStep
<1> QED
  BY <1>1, <1>2, <1>4, <1>5, <1>6, <1>7, <1>8 DEF MutexShape, SemShape

\* Where the steps of a mutex call and of a semaphore call lead.
LEMMA MutexStepTo ==
  ASSUME NEW t \in Tasks, PcDomain, MutexStep(t)
  PROVE  pc'[t] \in {"user"} \cup AcquireLabels \cup ReleaseLabels
BY DEF PcDomain, MutexStep, MutexBody, AcquireCall, AcquireLdrex, AcquireStrex,
       AcquireWait, AcquireCount, ReleaseCall, ReleaseCheck, ReleaseZero, ReleaseDec,
       ReleaseTest, ReleaseClear, ReleaseNotify, Calling, Local, Return, Goto,
       AcquireLabels, ReleaseLabels

LEMMA SemStepTo ==
  ASSUME NEW t \in Tasks, PcDomain, SemMove(t)
  PROVE  pc'[t] \in {"user"} \cup SemLabels
BY DEF PcDomain, SemMove, SemBody, SemAcquireCall, GetCountCall, SemReleaseCall, SemCall,
       SemAcquireLdrex, SemAcquireWait, SemAcquireStrex, SemReleaseLdrex,
       SemReleaseStrex, SemNotify, GetCountLdrex, GetCountStrex, SemReturn, Return,
       Calling, Local, Goto, SemLabels, SemAcquireLabels

\* A step of a mutex call.
LEMMA MutexStepKept ==
  ASSUME SyncKept, NEW t \in Tasks, MutexStep(t), UNCHANGED semVars
  PROVE  SyncKept'
<1> USE DEF SyncKept, SyncShape
<1>1. KernelTyped' /\ PcDomain' /\ MuxTyped' /\ CallNamesMutex' /\ Owned'
  BY MutexStepTyped, MutexStepMux, MutexStepOwned DEF MutexShape
<1>2. /\ currentTCB' = t
      /\ pc'[t] \in {"user"} \cup AcquireLabels \cup ReleaseLabels
      /\ \A u \in Tasks \ {t} : pc'[u] = pc[u] /\ arg'[u] = arg[u]
  BY MutexStepTo, MutexStepCurrent, OwnedByOthers DEF MutexShape
<1>3. pc'[t] \notin SemLabels \cup StoreLabels /\ pc'[t] # "wait_svc"
  BY <1>2 DEF AcquireLabels, ReleaseLabels, SemLabels, SemAcquireLabels, StoreLabels
<1>4. counter' = counter /\ loaded' = loaded
  BY DEF semVars
<1>5. Started'
  BY <1>2, QueueAssumption DEF Started
<1>6. CountersTyped' /\ CallNamesSemaphore'
  BY <1>2, <1>3, <1>4 DEF SemShape, CountersTyped, CallNamesSemaphore
<1>7. WaitNamesObject'
  BY <1>2, <1>3 DEF WaitNamesObject
<1>8. Counted'
  BY <1>2, <1>3, <1>4 DEF Counted, CountWithinSize, RegisterCurrent
<1> QED
  BY <1>1, <1>5, <1>6, <1>7, <1>8 DEF MutexShape, SemShape

\* A step of a semaphore call.
LEMMA SemStepKept ==
  ASSUME SyncKept, NEW t \in Tasks, SemMove(t), UNCHANGED mutexVars
  PROVE  SyncKept'
<1> USE DEF SyncKept, SyncShape
<1>1. KernelTyped' /\ PcDomain' /\ CountersTyped' /\ CallNamesSemaphore' /\ Counted'
  BY SemStepTyped, SemStepCounters, SemMoveCounted DEF SemShape
<1>2. /\ currentTCB' = t
      /\ pc'[t] \in {"user"} \cup SemLabels
      /\ \A u \in Tasks \ {t} : pc'[u] = pc[u] /\ arg'[u] = arg[u]
  BY SemStepTo, SemStepCurrent, SemStepOthers DEF SemShape
<1>3. /\ pc'[t] \notin AcquireLabels \cup ReleaseLabels \cup OwnerLabels
      /\ pc'[t] # "wait_svc" /\ pc'[t] # "aq_strex"
  BY <1>2 DEF AcquireLabels, ReleaseLabels, OwnerLabels, SemLabels, SemAcquireLabels
<1>4. mux' = mux /\ held' = held
  BY DEF mutexVars
<1>5. Started'
  BY <1>2, QueueAssumption DEF Started
<1>6. MuxTyped' /\ CallNamesMutex'
  BY <1>2, <1>3, <1>4 DEF MutexShape, MuxTyped, CallNamesMutex
<1>7. WaitNamesObject'
  BY <1>2, <1>3 DEF WaitNamesObject
<1>8. Owned'
  BY <1>2, <1>3, <1>4
  DEF Owned, HoldersOwn, CallersOwn, ReleasersLeft, MonitorFree
<1> QED
  BY <1>1, <1>5, <1>6, <1>7, <1>8 DEF MutexShape, SemShape

\* OS_Wait, whose caller has read the check code before, and OS_Notify.
WaitOrNotify(t, O) == WaitSvc(t) \/ \E o \in O : WaitCall(t, o) \/ OS_Notify(t, o)

\* They move their task only, from the function itself or to it.
LEMMA WaitOrNotifyMoves ==
  ASSUME KernelTyped, PcDomain, NEW t \in Tasks, NEW O, WaitOrNotify(t, O)
  PROVE  /\ currentTCB' = t
         /\ pc[t] \in {"user", "wait_svc"} /\ pc'[t] \in {"user", "wait_svc"}
         /\ pc'[t] = "wait_svc" => arg'[t] \in O
         /\ \A u \in Tasks \ {t} :
              pc'[u] = pc[u] /\ arg'[u] = arg[u] /\ check'[u] = check[u]
         /\ check'[t] \in {check[t], checkCode, 0}
         /\ pc' = [pc EXCEPT ![t] = pc'[t]]
<1> USE DEF WaitOrNotify, Executing, Goto, PcDomain, KernelTyped, KernelTypeOK
<1>1. CASE WaitSvc(t)
  BY <1>1 DEF WaitSvc, _svc_OS_Wait, Return
<1>2. ASSUME NEW o \in O, WaitCall(t, o)
      PROVE  /\ currentTCB' = t /\ pc[t] = "user"
             /\ pc' = [pc EXCEPT ![t] = "wait_svc"]
             /\ arg' = [arg EXCEPT ![t] = o]
             /\ check' = [check EXCEPT ![t] = checkCode]
  BY <1>2 DEF WaitCall, Calling, kernelVars, cpuVars
<1>3. ASSUME NEW o \in O, OS_Notify(t, o)
      PROVE  /\ currentTCB' = t /\ pc[t] = "user"
             /\ pc' = [pc EXCEPT ![t] = "user"]
             /\ arg' = arg /\ check' = check
  BY <1>3 DEF OS_Notify, _svc_OS_Notify, Calling
<1> QED
  BY <1>1, <1>2, <1>3

\* The OS_Wait of a function or of a program, and the OS_Notify of a program.
LEMMA WaitStepKept ==
  ASSUME SyncKept, NEW t \in Tasks, WaitOrNotify(t, Objects), UNCHANGED syncVars
  PROVE  SyncKept'
<1> USE DEF SyncKept, SyncShape
<1>1. /\ currentTCB' = t
      /\ pc'[t] \in {"user", "wait_svc"} /\ (pc'[t] = "wait_svc" => arg'[t] \in Objects)
      /\ \A u \in Tasks \ {t} : pc'[u] = pc[u] /\ arg'[u] = arg[u]
      /\ pc' = [pc EXCEPT ![t] = pc'[t]]
  BY WaitOrNotifyMoves DEF SemShape
<1>2. KernelTyped'
  BY RawStepTyped DEF WaitOrNotify, RawStep, SemShape
<1>3. PcDomain' /\ WaitNamesObject' /\ Started'
  BY <1>1, QueueAssumption
  DEF WaitNamesObject, Started, SemShape, PcDomain, KernelTyped, KernelTypeOK
<1>4. mux' = mux /\ held' = held /\ counter' = counter /\ loaded' = loaded
  BY DEF syncVars, mutexVars, semVars
<1>5. \A u \in Tasks : \/ pc'[u] \in {"user", "wait_svc"}
                       \/ pc'[u] = pc[u] /\ arg'[u] = arg[u] /\ u # t
  BY <1>1
<1>6. MuxTyped' /\ CallNamesMutex' /\ Owned'
  BY <1>1, <1>4, <1>5
  DEF MutexShape, MuxTyped, CallNamesMutex, Owned, HoldersOwn, CallersOwn, ReleasersLeft,
      MonitorFree, AcquireLabels, ReleaseLabels, OwnerLabels
<1>7. CountersTyped' /\ CallNamesSemaphore' /\ Counted'
  BY <1>1, <1>4, <1>5
  DEF SemShape, CountersTyped, CallNamesSemaphore, Counted, CountWithinSize,
      RegisterCurrent, SemLabels, SemAcquireLabels, StoreLabels
<1> QED
  BY <1>2, <1>3, <1>6, <1>7 DEF MutexShape, SemShape

\* A call that begins, of a mutex or a semaphore or of OS_Wait.
LEMMA EnteringKept ==
  ASSUME SyncKept, NEW t \in Tasks,
         \/ \E m \in Mutexes : Entering(t, "aq_ldrex", m)
         \/ \E s \in Semaphores, label \in {"sa_ldrex", "sr_ldrex", "wait_svc"} :
              Entering(t, label, s)
  PROVE  SyncKept'
<1> USE DEF SyncKept, SyncShape
<1>1. PICK label \in {"aq_ldrex", "sa_ldrex", "sr_ldrex", "wait_svc"}, o \in Objects :
        /\ Entering(t, label, o)
        /\ label = "aq_ldrex" => o \in Mutexes
        /\ label \in {"sa_ldrex", "sr_ldrex"} => o \in Semaphores
  BY MutexAssumption, SemaphoreAssumption
<1>2. /\ UNCHANGED kernelVars /\ calls' = calls
      /\ pc' = [pc EXCEPT ![t] = label]
      /\ arg' = [arg EXCEPT ![t] = o]
      /\ check' = check \/ check' = [check EXCEPT ![t] = checkCode]
      /\ mux' = mux /\ held' = held /\ counter' = counter
      /\ loaded' = loaded \/ loaded' = [loaded EXCEPT ![t] = 0]
      /\ currentTCB = t /\ currentTCB' = t
  BY <1>1 DEF Entering, mutexVars, Executing, Goto, kernelVars, cpuVars
<1>3. KernelTyped'
  <2>1. check' \in [Tasks -> Nat] /\ arg' \in [Tasks -> Objects \cup {Nil}]
    BY <1>2 DEF SemShape, KernelTyped, KernelTypeOK
  <2> QED
    BY <1>2, <2>1
    DEF SemShape, KernelTyped, KernelTypeOK, kernelVars, cpuVars, timeVars, queueVars,
        WellFormedQueues
<1>4. \A u \in Tasks : /\ pc'[u] = IF u = t THEN label ELSE pc[u]
                       /\ arg'[u] = IF u = t THEN o ELSE arg[u]
                       /\ u # t => loaded'[u] = loaded[u]
  BY <1>2 DEF SemShape, PcDomain, CountersTyped, KernelTyped, KernelTypeOK
<1>5. PcDomain' /\ WaitNamesObject' /\ Started'
  BY <1>2, <1>4, QueueAssumption
  DEF SemShape, PcDomain, WaitNamesObject, Started, kernelVars, cpuVars
<1>6. MuxTyped' /\ CallNamesMutex' /\ Owned'
  BY <1>1, <1>2, <1>4
  DEF MutexShape, MuxTyped, CallNamesMutex, Owned, HoldersOwn, CallersOwn, ReleasersLeft,
      MonitorFree, AcquireLabels, ReleaseLabels, OwnerLabels
<1>7. CountersTyped' /\ CallNamesSemaphore'
  BY <1>1, <1>2, <1>4, CounterWidth
  DEF SemShape, CountersTyped, CallNamesSemaphore, SemLabels, SemAcquireLabels
<1>8. Counted'
  BY <1>2, <1>4 DEF Counted, CountWithinSize, RegisterCurrent, StoreLabels
<1> QED
  BY <1>3, <1>5, <1>6, <1>7, <1>8 DEF MutexShape, SemShape

\* The calls that begin, whichever.
LEMMA EntriesKept == ASSUME SyncKept, NEW t \in Tasks, Entries(t) PROVE SyncKept'
<1>1. CASE \E s \in Semaphores : GetCountCall(t, s) /\ UNCHANGED <<mutexVars, taken>>
  BY <1>1, SemStepKept DEF SemMove
<1>2. CASE \E m \in Mutexes : ReleaseCall(t, m) /\ UNCHANGED <<semVars, taken>>
  BY <1>2, MutexStepKept DEF MutexStep
<1> QED
  BY <1>1, <1>2, EnteringKept DEF Entries

\* The steps of a call in progress.
LEMMA InnerStepKept == ASSUME SyncKept, NEW t \in Tasks, InnerStep(t) PROVE SyncKept'
<1>1. CASE MutexBody(t) /\ UNCHANGED semVars
  BY <1>1, MutexStepKept DEF MutexStep
<1>2. CASE SemBody(t) /\ UNCHANGED mutexVars
  BY <1>2, SemStepKept DEF SemMove
<1>3. CASE WaitSvc(t) /\ UNCHANGED <<mutexVars, semVars, taken>>
  BY <1>3, WaitStepKept DEF WaitOrNotify, syncVars
<1> QED
  BY <1>1, <1>2, <1>3 DEF InnerStep

\* The calls of a program.
LEMMA ApiCallKept ==
  ASSUME SyncKept, NEW t \in Tasks, NEW O \in SUBSET Objects, ApiCall(t, O)
  PROVE  SyncKept'
BY MutexStepKept, WaitStepKept DEF ApiCall, MutexStep, WaitOrNotify

\* A step that leaves the kernel and the calls alone.
LEMMA OwnStepKept ==
  ASSUME SyncKept, UNCHANGED <<vars, syncVars>>
  PROVE  SyncKept'
BY DEF SyncKept, SyncShape, MutexShape, SemShape, vars, syncVars, mutexVars, semVars, kernelVars,
       cpuVars, timeVars, queueVars, taskVars, KernelTyped, KernelTypeOK, WellFormedQueues,
       PcDomain, MuxTyped, CallNamesMutex, CountersTyped, CallNamesSemaphore, Started,
       WaitNamesObject, Owned, HoldersOwn, CallersOwn, ReleasersLeft, MonitorFree,
       Counted, CountWithinSize, RegisterCurrent, TooMany

-----------------------------------------------------------------------------
\* What the steps do to the calls of the tasks and to what they hold.

\* A step of the kernel, or of a task outside the functions, moves no task that is in one,
\* and no task into a call.
LEMMA OtherStepCalls ==
  ASSUME SyncKept, FunctionsCall,
         \/ Handlers /\ UNCHANGED <<syncVars, stage>>
         \/ \E t \in Tasks : OuterStep(t)
  PROVE  /\ stage' = stage /\ UNCHANGED syncVars /\ arg' = arg
         /\ \A u \in Tasks : \A l \in CallLabels : pc'[u] = l <=> pc[u] = l
         /\ \A u \in Tasks : stage[u] # "none" => pc'[u] = pc[u]
         /\ FunctionsCall'
<1> USE DEF SyncKept, SyncShape, MutexShape, PcDomain, FunctionsCall
<1>1. Handlers \/ \E t \in Tasks : (TaskStep(t) \/ EndStep(t)) /\ stage[t] = "none"
  BY DEF OuterStep
<1>2. stage' = stage /\ UNCHANGED syncVars
  BY DEF OuterStep
<1>3. /\ arg' = arg
      /\ \A u \in Tasks : pc'[u] = pc[u] \/ {pc[u], pc'[u]} \subseteq TaskLabels
  BY <1>1, KernelStepPc DEF EndStep
<1>4. \A u \in Tasks : stage[u] # "none" => pc'[u] = pc[u]
  <2> SUFFICES ASSUME NEW u \in Tasks, stage[u] # "none", pc[u] # "dormant"
               PROVE  pc'[u] = pc[u]
    BY DEF CallLabels, AcquireLabels, ReleaseLabels, SemLabels, SemAcquireLabels
  <2>1. CASE Handlers
    BY <2>1, KernelAssumption
    DEF Handlers, SysTick_Handler, UpdateSleepingTasks, PendSV_Handler, ExtractNull,
        HeapTorn, OS_Start, IdleSchedule, BootAddTask, taskVars, Goto
  <2>2. ASSUME NEW t \in Tasks, TaskStep(t) \/ TaskEnd(t), t # u
        PROVE  pc'[u] = pc[u]
    BY <2>2
    DEF TaskStep, OS_AddTask, RunPastEnd, SleepCall, SleepStamp, SleepStrex, SleepRemove,
        SleepInsert, SleepYield, TaskEnd, Calling, taskVars, Goto
  <2> QED
    BY <1>1, <2>1, <2>2 DEF EndStep
<1>5. \A u \in Tasks : \A l \in CallLabels : pc'[u] = l <=> pc[u] = l
  BY <1>3 DEF TaskLabels, KernelLabels, CallLabels, AcquireLabels, ReleaseLabels,
              SemLabels, SemAcquireLabels
<1> QED
  BY <1>2, <1>3, <1>4, <1>5

\* A step of a call leaves the other tasks alone.
LEMMA InnerStepOthers ==
  ASSUME SyncKept, NEW t \in Tasks, InnerStep(t), NEW u \in Tasks \ {t}
  PROVE  pc'[u] = pc[u] /\ arg'[u] = arg[u] /\ held'[u] = held[u]
<1> USE DEF SyncKept, SyncShape
<1>1. CASE MutexBody(t)
  BY <1>1, OwnedByOthers DEF MutexStep
<1>2. CASE SemBody(t) /\ UNCHANGED mutexVars
  BY <1>2, SemStepOthers DEF SemMove, mutexVars
<1>3. CASE WaitSvc(t) /\ UNCHANGED mutexVars
  BY <1>3 DEF WaitSvc, Return, Goto, MutexShape, PcDomain, KernelTyped, KernelTypeOK, mutexVars
<1> QED
  BY <1>1, <1>2, <1>3 DEF InnerStep

\* It goes on with the same call about the same object, or the call returns.
LEMMA InnerStepStays ==
  ASSUME SyncKept, NEW t \in Tasks, InnerStep(t)
  PROVE  /\ pc[t] \in CallLabels
         /\ \/ pc'[t] = "user"
            \/ arg'[t] = arg[t] /\ \E kind \in CallKinds : {pc[t], pc'[t]} \subseteq kind
<1> USE DEF SyncKept, SyncShape, MutexShape, SemShape, PcDomain, CallLabels, AcquireLabels,
            ReleaseLabels, SemLabels, SemAcquireLabels, Executing, Goto, Local
<1> DEFINE Stays(kind) == {pc[t], pc'[t]} \subseteq kind /\ arg' = arg
<1>1. CASE MutexBody(t)
  <2>1. pc[t] \in AcquireLabels \cup ReleaseLabels
    BY <1>1 DEF MutexBody, AcquireLdrex, AcquireStrex, AcquireWait, AcquireCount,
                ReleaseCheck, ReleaseZero, ReleaseDec, ReleaseTest, ReleaseClear,
                ReleaseNotify
  <2>2. pc'[t] = "user" \/ Stays(AcquireLabels) \/ Stays(ReleaseLabels)
    BY <1>1 DEF MutexBody, AcquireLdrex, AcquireStrex, AcquireWait, AcquireCount,
                ReleaseCheck, ReleaseZero, ReleaseDec, ReleaseTest, ReleaseClear,
                ReleaseNotify, Return
  <2> QED
    BY <2>1, <2>2 DEF CallKinds
<1>2. CASE SemBody(t)
  <2>1. pc[t] \in SemLabels
    BY <1>2 DEF SemBody, SemAcquireLdrex, SemAcquireWait, SemAcquireStrex,
                SemReleaseLdrex, SemReleaseStrex, SemNotify, GetCountLdrex, GetCountStrex
  <2>2. pc'[t] = "user" \/ Stays(Taking) \/ Stays(Giving) \/ Stays(ReadCount)
    <3> USE DEF Taking, Giving, ReadCount
    <3>1. CASE SemAcquireLdrex(t) \/ SemAcquireWait(t) \/ GetCountLdrex(t)
      BY <3>1 DEF SemAcquireLdrex, SemAcquireWait, GetCountLdrex
    <3>2. CASE SemAcquireStrex(t)
      BY <3>2 DEF SemAcquireStrex, SemReturn, Return
    <3>3. CASE SemReleaseLdrex(t)
      BY <3>3 DEF SemReleaseLdrex, SemReturn, Return
    <3>4. CASE SemReleaseStrex(t)
      BY <3>4 DEF SemReleaseStrex, SemReturn, Return
    <3>5. CASE SemNotify(t) \/ GetCountStrex(t)
      BY <3>5 DEF SemNotify, GetCountStrex, Return
    <3> QED
      BY <1>2, <3>1, <3>2, <3>3, <3>4, <3>5 DEF SemBody
  <2> QED
    BY <2>1, <2>2 DEF CallKinds
<1>3. CASE WaitSvc(t)
  BY <1>3 DEF WaitSvc, Return
<1> QED
  BY <1>1, <1>2, <1>3 DEF InnerStep

\* So a call of one kind stays of this kind.
LEMMA SameKind ==
  ASSUME NEW l, NEW m, \E kind \in CallKinds : {l, m} \subseteq kind
  PROVE  \A kind \in CallKinds : l \in kind <=> m \in kind
BY DEF CallKinds, AcquireLabels, ReleaseLabels, SemAcquireLabels, ReadCount, Taking, Giving

\* A task gets a mutex only when its OS_MutexAquire returns, and then has it; no step of a
\* call gives one up.
LEMMA InnerStepHeld ==
  ASSUME SyncKept, NEW t \in Tasks, InnerStep(t)
  PROVE  /\ held[t] \subseteq held'[t]
         /\ pc[t] \in AcquireLabels /\ pc'[t] = "user" => arg[t] \in held'[t]
<1> USE DEF SyncKept, SyncShape, MutexShape, PcDomain, MuxTyped, mutexVars, AcquireLabels,
            Executing, Goto, Local
<1>1. CASE AcquireCount(t)
  BY <1>1 DEF AcquireCount
<1>2. CASE AcquireLdrex(t) \/ AcquireStrex(t) \/ AcquireWait(t)
  BY <1>2 DEF AcquireLdrex, AcquireStrex, AcquireWait
<1>3. CASE \/ ReleaseCheck(t) \/ ReleaseZero(t) \/ ReleaseDec(t) \/ ReleaseTest(t)
           \/ ReleaseClear(t) \/ ReleaseNotify(t)
  BY <1>3 DEF ReleaseCheck, ReleaseZero, ReleaseDec, ReleaseTest, ReleaseClear,
              ReleaseNotify
<1>4. CASE SemBody(t) /\ UNCHANGED mutexVars
  BY <1>4, SemStepCurrent DEF SemBody, SemMove, SemAcquireLdrex, SemAcquireWait, SemAcquireStrex,
                SemReleaseLdrex, SemReleaseStrex, SemNotify, GetCountLdrex, GetCountStrex
<1>5. CASE WaitSvc(t) /\ UNCHANGED mutexVars
  BY <1>5 DEF WaitSvc
<1> QED
  BY <1>1, <1>2, <1>3, <1>4, <1>5 DEF InnerStep, MutexBody

\* What it holds when the step is over it held before, or it is the mutex of the call.
LEMMA InnerStepGets ==
  ASSUME SyncKept, NEW t \in Tasks, InnerStep(t)
  PROVE  \/ held'[t] = held[t]
         \/ /\ pc[t] \in AcquireLabels /\ pc'[t] = "user"
            /\ held'[t] = held[t] \cup {arg[t]}
<1> USE DEF SyncKept, SyncShape, MutexShape, PcDomain, MuxTyped, mutexVars, AcquireLabels
<1>1. CASE AcquireCount(t)
  BY <1>1 DEF AcquireCount, Return, Goto, Executing, KernelTyped, KernelTypeOK
<1>2. CASE MutexBody(t) /\ ~AcquireCount(t)
  BY <1>2
  DEF MutexBody, AcquireLdrex, AcquireStrex, AcquireWait, ReleaseCheck, ReleaseZero,
      ReleaseDec, ReleaseTest, ReleaseClear, ReleaseNotify
<1> QED
  BY <1>1, <1>2 DEF InnerStep

\* A counter changes only in a store-exclusive that succeeds: an acquire that has its
\* resource has lowered it by one, and only a release raises it, by one, and is then
\* over but for OS_Notify.
LEMMA InnerStepCounter ==
  ASSUME SyncKept, NEW t \in Tasks, InnerStep(t), NEW s \in Semaphores
  PROVE  /\ counter[s] \in Nat /\ counter'[s] \in Nat
         /\ pc[t] \in SemAcquireLabels /\ pc'[t] \notin SemAcquireLabels /\ arg[t] = s =>
              counter'[s] = counter[s] - 1
         /\ \/ counter'[s] <= counter[s]
            \/ /\ counter'[s] = counter[s] + 1 /\ arg[t] = s
               /\ pc[t] = "sr_strex" /\ pc'[t] \notin {"sr_ldrex", "sr_strex"}
<1> USE DEF SyncKept, SyncShape, SemShape, PcDomain, CountersTyped, semVars,
            SemAcquireLabels, Executing, Goto, Local
<1>0. counter[s] \in Nat /\ counter'[s] \in Nat
  BY InnerStepKept, CounterWidth
<1>1. CASE (MutexBody(t) \/ WaitSvc(t)) /\ UNCHANGED semVars
  <2>1. pc[t] \notin SemAcquireLabels
    BY <1>1, MutexStepCurrent DEF MutexStep, WaitSvc, AcquireLabels, ReleaseLabels
  <2> QED
    BY <1>0, <1>1, <2>1
<1>2. CASE \/ SemAcquireLdrex(t) \/ SemAcquireWait(t) \/ SemReleaseLdrex(t)
           \/ SemNotify(t) \/ GetCountLdrex(t)
  <2>1. counter' = counter
    BY <1>2 DEF SemAcquireLdrex, SemAcquireWait, SemReleaseLdrex, SemNotify,
                GetCountLdrex, LoadCounter
  <2>2. pc[t] \in SemAcquireLabels => pc'[t] \in SemAcquireLabels
    BY <1>2 DEF SemAcquireLdrex, SemAcquireWait, SemReleaseLdrex, SemNotify,
                GetCountLdrex
  <2> QED
    BY <1>0, <2>1, <2>2
<1>3. CASE SemAcquireStrex(t)
  <2>1. CASE exclusive /\ arg[t] = s
    <3>1. loaded[t] = counter[s] /\ loaded[t] > 0
      BY <1>3, <2>1 DEF SemAcquireStrex, Counted, RegisterCurrent, StoreLabels
    <3>2. (IF loaded[t] = 0 THEN 0 ELSE loaded[t] - 1) = counter[s] - 1
      BY <1>0, <3>1
    <3>3. counter'[s] = counter[s] - 1
      BY <1>3, <2>1, <3>2 DEF SemAcquireStrex, StoreCounter
    <3> QED
      BY <1>0, <3>3
  <2>2. CASE ~exclusive
    <3>1. counter' = counter /\ pc'[t] = "sa_ldrex"
      BY <1>3, <2>2 DEF SemAcquireStrex, StoreCounter
    <3> QED
      BY <1>0, <3>1
  <2>3. CASE arg[t] # s
    <3>1. counter'[s] = counter[s]
      BY <1>3, <2>3 DEF SemAcquireStrex, StoreCounter
    <3> QED
      BY <1>0, <2>3, <3>1
  <2> QED
    BY <2>1, <2>2, <2>3
<1>4. CASE SemReleaseStrex(t)
  <2>1. pc[t] = "sr_strex"
    BY <1>4 DEF SemReleaseStrex
  <2>2. CASE exclusive /\ arg[t] = s
    <3>1. loaded[t] = counter[s] /\ counter[s] \in 0 .. UIntMax
      BY <1>4, <2>2 DEF SemReleaseStrex, Counted, RegisterCurrent, StoreLabels
    <3>2. counter'[s] = (counter[s] + 1) % (UIntMax + 1)
      BY <1>4, <2>2, <3>1 DEF SemReleaseStrex, StoreCounter
    <3>3. counter'[s] \in {0, counter[s] + 1}
      BY <3>1, <3>2, IncrementAlternatives
    <3>4. pc'[t] \in {"user", "sr_notify"}
      BY <1>4, <2>2 DEF SemReleaseStrex, SemReturn, Return
    <3> QED
      BY <1>0, <2>1, <2>2, <3>3, <3>4
  <2>3. CASE ~exclusive \/ arg[t] # s
    <3>1. counter'[s] = counter[s]
      BY <1>4, <2>3 DEF SemReleaseStrex, StoreCounter
    <3> QED
      BY <1>0, <2>1, <3>1
  <2> QED
    BY <2>2, <2>3
<1>5. CASE GetCountStrex(t)
  <2>1. pc[t] = "gc_strex"
    BY <1>5 DEF GetCountStrex
  <2>2. exclusive => loaded[t] = counter[arg[t]]
    BY <1>5 DEF GetCountStrex, Counted, RegisterCurrent, StoreLabels
  <2>3. counter'[s] = counter[s]
    BY <1>5, <2>2 DEF GetCountStrex, StoreCounter
  <2> QED
    BY <1>0, <2>1, <2>3
<1> QED
  BY <1>1, <1>2, <1>3, <1>4, <1>5 DEF InnerStep, SemBody

\* A call does not return to the part of it that changes the counter.
LEMMA InnerStepPast ==
  ASSUME SyncKept, NEW t \in Tasks, InnerStep(t)
  PROVE  /\ pc[t] \notin SemAcquireLabels => pc'[t] \notin SemAcquireLabels
         /\ pc[t] \notin {"sr_ldrex", "sr_strex"} => pc'[t] \notin {"sr_ldrex", "sr_strex"}
<1> USE DEF SyncKept, SyncShape, MutexShape, PcDomain, SemAcquireLabels, Executing, Goto,
            Local
<1>1. CASE pc[t] \in {"sa_notify", "sr_notify"}
  <2>1. SemNotify(t) \/ ~SemBody(t)
    BY <1>1 DEF SemBody, SemAcquireLdrex, SemAcquireWait, SemAcquireStrex, SemReleaseLdrex,
                SemReleaseStrex, GetCountLdrex, GetCountStrex
  <2>2. ~WaitSvc(t) /\ ~MutexBody(t)
    BY <1>1 DEF WaitSvc, MutexBody, AcquireLdrex, AcquireStrex, AcquireWait, AcquireCount,
                ReleaseCheck, ReleaseZero, ReleaseDec, ReleaseTest, ReleaseClear, ReleaseNotify
  <2>3. SemNotify(t)
    BY <2>1, <2>2 DEF InnerStep
  <2>4. pc'[t] = "user"
    BY <2>3 DEF SemNotify, Return
  <2> QED
    BY <2>4
<1>2. CASE pc[t] \notin {"sa_notify", "sr_notify"}
  <2>1. pc'[t] = "user" \/ \A kind \in CallKinds : pc[t] \in kind <=> pc'[t] \in kind
    <3>1. pc'[t] = "user" \/ \E kind \in CallKinds : {pc[t], pc'[t]} \subseteq kind
      BY InnerStepStays
    <3> QED
      BY <3>1, SameKind
  <2>2. Taking \in CallKinds /\ Giving \in CallKinds
    BY DEF CallKinds
  <2> QED
    BY <1>2, <2>1, <2>2 DEF Taking, Giving
<1> QED
  BY <1>1, <1>2

\* A call that begins moves its task only, from the function itself to the first step of
\* the call, and leaves the counters alone.
LEMMA EntriesMove ==
  ASSUME SyncKept, NEW t \in Tasks, Entries(t)
  PROVE  /\ mode = "thread" /\ currentTCB = t /\ pc[t] = "user" /\ counter' = counter
         /\ \A u \in Tasks \ {t} :
              pc'[u] = pc[u] /\ arg'[u] = arg[u] /\ held'[u] = held[u]
         /\ held'[t] \subseteq held[t]
<1> USE DEF SyncKept, SyncShape, MutexShape, PcDomain, MuxTyped, KernelTyped,
            KernelTypeOK, mutexVars, semVars, Executing, Goto
<1>1. ASSUME NEW label, NEW o, Entering(t, label, o)
      PROVE  /\ mode = "thread" /\ currentTCB = t /\ pc[t] = "user" /\ counter' = counter
             /\ \A u \in Tasks \ {t} : pc'[u] = pc[u] /\ arg'[u] = arg[u]
             /\ held' = held
  BY <1>1 DEF Entering
<1>2. ASSUME NEW s \in Semaphores, GetCountCall(t, s), UNCHANGED mutexVars
      PROVE  /\ mode = "thread" /\ currentTCB = t /\ pc[t] = "user" /\ counter' = counter
             /\ \A u \in Tasks \ {t} : pc'[u] = pc[u] /\ arg'[u] = arg[u]
             /\ held' = held
  BY <1>2 DEF GetCountCall, SemCall, Calling
<1>3. ASSUME NEW m \in Mutexes, ReleaseCall(t, m), UNCHANGED semVars
      PROVE  /\ mode = "thread" /\ currentTCB = t /\ pc[t] = "user" /\ counter' = counter
             /\ \A u \in Tasks \ {t} :
                  pc'[u] = pc[u] /\ arg'[u] = arg[u] /\ held'[u] = held[u]
             /\ held'[t] \subseteq held[t]
  BY <1>3 DEF ReleaseCall, Calling
<1> QED
  BY <1>1, <1>2, <1>3 DEF Entries

-----------------------------------------------------------------------------
\* What the mutexes and the semaphores promise, they promise in the composition.

\* The steps of a composition, whatever its functions do with their own data, whose
\* programs call OS_Wait and OS_Notify about the objects of O.
SyncStep(O) ==
  \/ Handlers /\ UNCHANGED <<syncVars, stage>>
  \/ \E t \in Tasks : OuterStep(t) \/ InnerStep(t) \/ Entries(t) \/ ApiCall(t, O)
  \/ UNCHANGED <<vars, syncVars>>

\* A step in which nobody begins to release a mutex he does not hold, but those of Stray.
ReleasesHeld ==
  \A t \in Tasks : pc[t] = "user" /\ pc'[t] = "rl_check" => arg'[t] \in held[t] \cup Stray

\* A step in which nobody begins to acquire a mutex he holds.
AcquiresNew ==
  \A t \in Tasks :
    pc[t] \notin AcquireLabels /\ pc'[t] = "aq_ldrex" => arg'[t] \notin held[t]

\* A step of task t that leaves the mutexes alone, and neither is part of a mutex call
\* nor leads further into one than to its first step.
Aside(t) ==
  /\ UNCHANGED mutexVars
  /\ checkCode' \in {checkCode, checkCode + 1}
  /\ pc[t] \notin AcquireLabels \cup ReleaseLabels
  /\ pc'[t] \notin (AcquireLabels \ {"aq_ldrex"}) \cup ReleaseLabels
  /\ check'[t] \in {check[t], checkCode, 0}
  /\ \A u \in Tasks \ {t} : pc'[u] = pc[u] /\ arg'[u] = arg[u] /\ check'[u] = check[u]

\* Who waits for a mutex is left alone.
QueuesAside == \A m \in Mutexes : waiting'[m] = waiting[m]

\* Nobody calls OS_Wait about a mutex but OS_MutexAquire: a function calls it about a
\* semaphore.
WaitsApart == \A t \in Tasks : pc[t] = "wait_svc" => arg[t] \notin Mutexes

\* OS_Wait and OS_Notify touch the queue of their object only.
LEMMA SvcAside ==
  ASSUME KernelTyped, NEW o, NEW code, _svc_OS_Wait(o, code) \/ _svc_OS_Notify(o)
  PROVE  /\ checkCode' \in {checkCode, checkCode + 1}
         /\ o \notin Mutexes => QueuesAside
<1>1. \A q : \A m \in Mutexes \ {o} : [waiting EXCEPT ![o] = q][m] = waiting[m]
  BY MutexAssumption DEF KernelTyped, KernelTypeOK
<1> QED
  BY <1>1
  DEF QueuesAside, _svc_OS_Wait, _svc_OS_Notify, FPS_TaskWaitCallback, FPS_TaskNotifyCallback

\* A semaphore call does not meddle with mutexes.
LEMMA SemStepAside ==
  ASSUME SyncKept, NEW t \in Tasks, SemMove(t), UNCHANGED mutexVars
  PROVE  Aside(t) /\ QueuesAside
<1> USE DEF SyncKept, SyncShape
<1>1. /\ pc[t] \in {"user"} \cup SemLabels /\ pc'[t] \in {"user"} \cup SemLabels
      /\ \A u \in Tasks \ {t} : pc'[u] = pc[u] /\ arg'[u] = arg[u] /\ check'[u] = check[u]
  BY SemStepCurrent, SemStepTo, SemStepOthers DEF SemShape
<1>2. /\ pc[t] \notin AcquireLabels \cup ReleaseLabels
      /\ pc'[t] \notin (AcquireLabels \ {"aq_ldrex"}) \cup ReleaseLabels
  BY <1>1 DEF AcquireLabels, ReleaseLabels, SemLabels, SemAcquireLabels
<1>3. /\ QueuesAside
      /\ checkCode' \in {checkCode, checkCode + 1}
      /\ check'[t] \in {check[t], checkCode, 0}
  <2> USE DEF SemShape, KernelTyped, KernelTypeOK, kernelVars, queueVars
  <2>1. CASE SemAcquireWait(t) \/ SemNotify(t)
    <3>1. arg[t] \in Semaphores
      BY <2>1 DEF SemAcquireWait, SemNotify, Executing, CallNamesSemaphore, SemLabels,
                  SemAcquireLabels
    <3>2. _svc_OS_Wait(arg[t], check[t]) \/ _svc_OS_Notify(arg[t])
      BY <2>1 DEF SemAcquireWait, SemNotify
    <3>3. check'[t] \in {check[t], 0}
      BY <2>1 DEF SemAcquireWait, SemNotify, Return
    <3> QED
      BY <3>1, <3>2, <3>3, SvcAside, SyncAssumption
  <2>2. CASE \E s \in Semaphores :
               SemAcquireCall(t, s) \/ GetCountCall(t, s) \/ SemReleaseCall(t, s)
    BY <2>2 DEF QueuesAside, SemAcquireCall, GetCountCall, SemReleaseCall, SemCall, Calling
  <2>3. CASE \/ SemAcquireLdrex(t) \/ SemAcquireStrex(t) \/ SemReleaseLdrex(t)
             \/ SemReleaseStrex(t) \/ GetCountLdrex(t) \/ GetCountStrex(t)
    BY <2>3 DEF QueuesAside, SemAcquireLdrex, SemAcquireStrex, SemReleaseLdrex,
                SemReleaseStrex, GetCountLdrex, GetCountStrex, LoadCounter,
                StoreCounter, SemReturn, Return, Local
  <2> QED
    BY <2>1, <2>2, <2>3 DEF SemMove, SemBody
<1> QED
  BY <1>1, <1>2, <1>3 DEF Aside

\* Nor do OS_Wait and OS_Notify.
LEMMA WaitStepAside ==
  ASSUME SyncKept, NEW t \in Tasks, NEW O, WaitOrNotify(t, O), UNCHANGED syncVars
  PROVE  Aside(t) /\ (WaitsApart /\ O \cap Mutexes = {} => QueuesAside)
<1> USE DEF SyncKept, SyncShape
<1>1. /\ pc[t] \in {"user", "wait_svc"} /\ pc'[t] \in {"user", "wait_svc"}
      /\ check'[t] \in {check[t], checkCode, 0}
      /\ \A u \in Tasks \ {t} : pc'[u] = pc[u] /\ arg'[u] = arg[u] /\ check'[u] = check[u]
  BY WaitOrNotifyMoves DEF SemShape
<1>2. /\ checkCode' \in {checkCode, checkCode + 1}
      /\ WaitsApart /\ O \cap Mutexes = {} => QueuesAside
  <2>1. CASE WaitSvc(t)
    BY <2>1, SvcAside DEF WaitSvc, Executing, WaitsApart, SemShape
  <2>2. CASE \E o \in O : WaitCall(t, o)
    BY <2>2 DEF WaitCall, kernelVars, queueVars, QueuesAside
  <2>3. CASE \E o \in O : OS_Notify(t, o)
    BY <2>3, SvcAside DEF OS_Notify, SemShape
  <2> QED
    BY <2>1, <2>2, <2>3 DEF WaitOrNotify
<1> QED
  BY <1>1, <1>2 DEF Aside, syncVars, AcquireLabels, ReleaseLabels

\* Nor does the beginning of a call.
LEMMA EnteringAside ==
  ASSUME SyncKept, NEW t \in Tasks, NEW label \in {"aq_ldrex", "sa_ldrex", "sr_ldrex", "wait_svc"},
         NEW o, Entering(t, label, o)
  PROVE  Aside(t) /\ QueuesAside
BY DEF Entering, Aside, QueuesAside, Executing, Goto, kernelVars, queueVars, AcquireLabels, ReleaseLabels,
       SyncKept, SyncShape, MutexShape, PcDomain, KernelTyped, KernelTypeOK

\* A step of a composition is one of the kernel or of a mutex, or does not meddle with
\* mutexes.
LEMMA SyncStepCases ==
  ASSUME SyncKept, NEW O, SyncStep(O)
  PROVE  \/ /\ Handlers \/ \E t \in Tasks : TaskStep(t) \/ EndStep(t)
            /\ UNCHANGED syncVars
         \/ \E t \in Tasks : MutexStep(t) /\ UNCHANGED semVars
         \/ \E t \in Tasks :
              Aside(t) /\ (WaitsApart /\ O \cap Mutexes = {} => QueuesAside)
         \/ UNCHANGED <<vars, syncVars>>
<1> DEFINE StepsAside(t) == Aside(t) /\ (WaitsApart /\ O \cap Mutexes = {} => QueuesAside)
<1>1. ASSUME NEW t \in Tasks, InnerStep(t), ~StepsAside(t)
      PROVE  MutexStep(t) /\ UNCHANGED semVars
  <2>1. ~(SemBody(t) /\ UNCHANGED mutexVars)
    BY <1>1, SemStepAside DEF SemMove
  <2>2. ~(WaitSvc(t) /\ UNCHANGED syncVars)
    BY <1>1, WaitStepAside DEF WaitOrNotify
  <2> QED
    BY <1>1, <2>1, <2>2 DEF InnerStep, syncVars, MutexStep
<1>2. ASSUME NEW t \in Tasks, Entries(t), ~StepsAside(t)
      PROVE  MutexStep(t) /\ UNCHANGED semVars
  <2>1. ~\E s \in Semaphores : GetCountCall(t, s) /\ UNCHANGED <<mutexVars, taken>>
    BY <1>2, SemStepAside DEF SemMove
  <2> QED
    BY <1>2, <2>1, EnteringAside DEF Entries, MutexStep
<1>3. ASSUME NEW t \in Tasks, ApiCall(t, O), ~StepsAside(t)
      PROVE  MutexStep(t) /\ UNCHANGED semVars
  BY <1>3, WaitStepAside DEF ApiCall, WaitOrNotify, MutexStep
<1>4. ASSUME NEW t \in Tasks, OuterStep(t)
      PROVE  (TaskStep(t) \/ EndStep(t)) /\ UNCHANGED syncVars
  BY <1>4 DEF OuterStep
<1> HIDE DEF StepsAside
<1>5. \/ /\ Handlers \/ \E t \in Tasks : TaskStep(t) \/ EndStep(t)
         /\ UNCHANGED syncVars
      \/ \E t \in Tasks : MutexStep(t) /\ UNCHANGED semVars
      \/ \E t \in Tasks : StepsAside(t)
      \/ UNCHANGED <<vars, syncVars>>
  BY <1>1, <1>2, <1>3, <1>4 DEF SyncStep
<1> QED
  BY <1>5 DEF StepsAside

\* A composition keeps the invariant of the calls.
LEMMA SyncStepKept ==
  ASSUME SyncKept, NEW O \in SUBSET Objects, SyncStep(O) PROVE SyncKept'
<1>1. CASE Handlers /\ UNCHANGED <<syncVars, stage>>
  BY <1>1, OtherStepKept
<1>2. ASSUME NEW t \in Tasks, OuterStep(t) PROVE SyncKept'
  BY <1>2, OtherStepKept DEF OuterStep
<1> QED
  BY <1>1, <1>2, InnerStepKept, EntriesKept, ApiCallKept, OwnStepKept DEF SyncStep

\* OS_Wait stays about other objects than mutexes.
LEMMA SyncStepWaits ==
  ASSUME SyncKept, WaitsApart, NEW O, O \cap Mutexes = {}, SyncStep(O)
  PROVE  WaitsApart'
<1> USE DEF SyncKept, SyncShape, WaitsApart
<1>1. CASE Handlers \/ \E t \in Tasks : TaskStep(t) \/ EndStep(t)
  BY <1>1, KernelStepPc DEF EndStep, MutexShape, TaskLabels
<1>2. ASSUME NEW t \in Tasks, InnerStep(t) PROVE WaitsApart'
  <2>1. \A u \in Tasks \ {t} : pc'[u] = pc[u] /\ arg'[u] = arg[u]
    BY <1>2, InnerStepOthers
  <2>2. pc'[t] = "wait_svc" => pc[t] = "wait_svc" /\ arg'[t] = arg[t]
    <3> SUFFICES ASSUME pc'[t] = "wait_svc" PROVE pc[t] = "wait_svc" /\ arg'[t] = arg[t]
      OBVIOUS
    <3>1. arg'[t] = arg[t] /\ \E kind \in CallKinds : {pc[t], pc'[t]} \subseteq kind
      BY <1>2, InnerStepStays
    <3>2. {"wait_svc"} \in CallKinds
      BY DEF CallKinds
    <3> QED
      BY <3>1, <3>2, SameKind
  <2> QED
    BY <2>1, <2>2
<1>3. ASSUME NEW t \in Tasks, Entries(t) PROVE WaitsApart'
  <2>1. \A u \in Tasks \ {t} : pc'[u] = pc[u] /\ arg'[u] = arg[u]
    BY <1>3, EntriesMove
  <2>2. pc'[t] = "wait_svc" => arg'[t] \in Semaphores \cup O
    <3> USE DEF MutexShape, PcDomain, KernelTyped, KernelTypeOK, Executing, Goto
    <3>1. ASSUME NEW label, NEW o, Entering(t, label, o)
          PROVE  pc'[t] = label /\ arg'[t] = o
      BY <3>1 DEF Entering
    <3>2. ASSUME NEW s \in Semaphores, GetCountCall(t, s) PROVE pc'[t] = "gc_ldrex"
      BY <3>2 DEF GetCountCall, Calling
    <3>3. ASSUME NEW m \in Mutexes, ReleaseCall(t, m) PROVE pc'[t] = "rl_check"
      BY <3>3 DEF ReleaseCall, Calling
    <3> QED
      BY <1>3, <3>1, <3>2, <3>3 DEF Entries
  <2> QED
    BY <2>1, <2>2, SyncAssumption
<1>4. CASE UNCHANGED <<vars, syncVars>>
  BY <1>4 DEF vars, taskVars
<1>5. ASSUME NEW t \in Tasks, ApiCall(t, O) PROVE WaitsApart'
  <2>1. CASE \E m \in Mutexes : AcquireCall(t, m) \/ ReleaseCall(t, m)
    BY <2>1 DEF AcquireCall, ReleaseCall, Calling, Executing, Goto, MutexShape, PcDomain,
                KernelTyped, KernelTypeOK
  <2>2. CASE WaitOrNotify(t, O)
    BY <2>2, WaitOrNotifyMoves DEF MutexShape
  <2> QED
    BY <1>5, <2>1, <2>2 DEF ApiCall, WaitOrNotify
<1> QED
  BY <1>1, <1>2, <1>3, <1>4, <1>5 DEF SyncStep, OuterStep

\* Every task stays in its place.
LEMMA SyncStepPlaced ==
  ASSUME Closed, SyncKept, Placed, NEW O \in SUBSET Objects, SyncStep(O) PROVE Placed'
<1> USE DEF SyncKept, SyncShape
<1>1. CASE Handlers
  BY <1>1, HandlersPlaced
<1>2. ASSUME NEW t \in Tasks, TaskStep(t) \/ EndStep(t) PROVE Placed'
  BY <1>2, TaskStepPlaced, EndPlaced, KernelStepTyped DEF EndStep, Placed
<1>3. ASSUME NEW t \in Tasks, MutexStep(t) PROVE Placed'
  BY <1>3, MutexStepPlaced
<1>4. ASSUME NEW t \in Tasks, SemMove(t) PROVE Placed'
  BY <1>4, SemStepPlaced
<1>5. ASSUME NEW t \in Tasks, WaitOrNotify(t, O) PROVE Placed'
  BY <1>5, RawStepPlaced DEF WaitOrNotify, RawStep
<1>6. ASSUME NEW t \in Tasks,
             NEW label \in {"aq_ldrex", "sa_ldrex", "sr_ldrex", "wait_svc"}, NEW o,
             Entering(t, label, o), SyncKept'
      PROVE  Placed'
  <2>1. /\ mode = "thread" /\ mode' = "thread" /\ currentTCB = t /\ currentTCB' = t
        /\ Live(pc[t]) /\ Live(label) /\ pc' = [pc EXCEPT ![t] = label]
        /\ UNCHANGED <<running, sleeping, waiting>>
    BY <1>6 DEF Entering, Executing, Goto, kernelVars, cpuVars, queueVars, Live, SleepWindow
  <2>2. KernelTyped'
    BY <1>6 DEF SemShape
  <2> QED
    BY <2>1, <2>2, LocalPlaced
<1>7. CASE UNCHANGED <<vars, syncVars>>
  BY <1>7 DEF vars, kernelVars, cpuVars, timeVars, queueVars, taskVars, Placed, KernelTyped,
              KernelTypeOK, WellFormedQueues, PcDomain, Apart, Present, Dispatched, Waits
<1>8. ASSUME NEW t \in Tasks, InnerStep(t) PROVE Placed'
  BY <1>3, <1>4, <1>5, <1>8 DEF InnerStep, MutexStep, SemMove, WaitOrNotify
<1>9. ASSUME NEW t \in Tasks, Entries(t) PROVE Placed'
  BY <1>3, <1>4, <1>6, <1>9, EntriesKept DEF Entries, MutexStep, SemMove
<1>10. ASSUME NEW t \in Tasks, ApiCall(t, O) PROVE Placed'
  BY <1>3, <1>5, <1>10 DEF ApiCall, MutexStep, WaitOrNotify
<1> QED
  BY <1>1, <1>2, <1>7, <1>8, <1>9, <1>10 DEF SyncStep, OuterStep

\* A mutex call calls OS_Wait and OS_Notify about its mutex.
LEMMA MutexStepTouches ==
  ASSUME MutexShape, NEW t \in Tasks, MutexStep(t) PROVE CallTouches
<1> USE DEF CallTouches, kernelVars, queueVars, taskVars
<1>1. CASE \E m \in Mutexes : AcquireCall(t, m) \/ ReleaseCall(t, m)
  BY <1>1 DEF AcquireCall, ReleaseCall, Calling
<1>2. CASE AcquireLdrex(t) \/ AcquireStrex(t) \/ AcquireCount(t)
  BY <1>2 DEF AcquireLdrex, AcquireStrex, AcquireCount, Local, Return
<1>3. CASE \/ ReleaseCheck(t) \/ ReleaseZero(t) \/ ReleaseDec(t)
           \/ ReleaseTest(t) \/ ReleaseClear(t)
  BY <1>3 DEF ReleaseCheck, ReleaseZero, ReleaseDec, ReleaseTest, ReleaseClear, Local, Return
<1>4. CASE AcquireWait(t) \/ ReleaseNotify(t)
  <2>1. arg[t] \in Objects
    BY <1>4, MutexAssumption
    DEF AcquireWait, ReleaseNotify, Executing, MutexShape, CallNamesMutex, AcquireLabels,
        ReleaseLabels
  <2> QED
    BY <1>4, <2>1 DEF AcquireWait, ReleaseNotify
<1> QED
  BY <1>1, <1>2, <1>3, <1>4 DEF MutexStep, MutexBody

\* A semaphore call calls them about its semaphore.
LEMMA SemStepTouches ==
  ASSUME SemShape, NEW t \in Tasks, SemMove(t) PROVE CallTouches
<1> USE DEF CallTouches, kernelVars, queueVars, taskVars
<1>1. CASE \E s \in Semaphores :
             SemAcquireCall(t, s) \/ GetCountCall(t, s) \/ SemReleaseCall(t, s)
  BY <1>1 DEF SemAcquireCall, GetCountCall, SemReleaseCall, SemCall, Calling
<1>2. CASE \/ SemAcquireLdrex(t) \/ SemAcquireStrex(t) \/ SemReleaseLdrex(t)
           \/ SemReleaseStrex(t) \/ GetCountLdrex(t) \/ GetCountStrex(t)
  BY <1>2 DEF SemAcquireLdrex, SemAcquireStrex, SemReleaseLdrex, SemReleaseStrex,
              GetCountLdrex, GetCountStrex, LoadCounter, StoreCounter, SemReturn, Return,
              Local
<1>3. CASE SemAcquireWait(t) \/ SemNotify(t)
  <2>1. arg[t] \in Objects
    BY <1>3, SemaphoreAssumption
    DEF SemAcquireWait, SemNotify, Executing, SemShape, CallNamesSemaphore, SemLabels,
        SemAcquireLabels
  <2> QED
    BY <1>3, <2>1 DEF SemAcquireWait, SemNotify
<1> QED
  BY <1>1, <1>2, <1>3 DEF SemMove, SemBody

\* So the running queue stays sorted in the composition.
LEMMA SyncStepSorted ==
  ASSUME Closed, HeapOrdered, SyncKept, Placed, RunningSorted,
         NEW O \in SUBSET Objects, SyncStep(O)
  PROVE  RunningSorted'
<1> USE DEF SyncKept, SyncShape
<1>1. CASE Handlers \/ \E t \in Tasks : TaskStep(t) \/ EndStep(t)
  BY <1>1, KernelStepSorted DEF EndStep
<1>2. ASSUME CallTouches PROVE RunningSorted'
  BY <1>2, CallSorted DEF SemShape
<1>3. ASSUME NEW t \in Tasks, WaitOrNotify(t, O) PROVE CallTouches
  BY <1>3 DEF WaitOrNotify, WaitSvc, WaitNamesObject, WaitCall, OS_Notify, CallTouches,
              Executing, kernelVars, queueVars
<1>4. ASSUME NEW t \in Tasks,
             NEW label \in {"aq_ldrex", "sa_ldrex", "sr_ldrex", "wait_svc"}, NEW o,
             Entering(t, label, o)
      PROVE  CallTouches
  BY <1>4 DEF Entering, kernelVars, queueVars, taskVars, CallTouches
<1>5. ASSUME NEW t \in Tasks, InnerStep(t) PROVE CallTouches
  BY <1>3, <1>5, MutexStepTouches, SemStepTouches
  DEF InnerStep, MutexStep, SemMove, WaitOrNotify
<1>6. ASSUME NEW t \in Tasks, Entries(t) PROVE CallTouches
  <2>1. CASE MutexStep(t) \/ SemMove(t)
    BY <2>1, MutexStepTouches, SemStepTouches
  <2>2. CASE ~(MutexStep(t) \/ SemMove(t))
    BY <1>4, <1>6, <2>2 DEF Entries, MutexStep, SemMove
  <2> QED
    BY <2>1, <2>2
<1>7. CASE UNCHANGED <<vars, syncVars>>
  BY <1>2, <1>7 DEF vars, kernelVars, queueVars, CallTouches
<1>8. ASSUME NEW t \in Tasks, ApiCall(t, O) PROVE CallTouches
  BY <1>3, <1>8, MutexStepTouches DEF ApiCall, MutexStep, WaitOrNotify
<1> QED
  BY <1>1, <1>2, <1>5, <1>6, <1>7, <1>8 DEF SyncStep, OuterStep

\* A step that does not meddle with mutexes loses no wakeup.
LEMMA AsideWakeups ==
  ASSUME SyncKept, Wakeups, NEW t \in Tasks, Aside(t), QueuesAside PROVE Wakeups'
<1> USE DEF Wakeups, Aside, QueuesAside
<1>1. checkCode \in Nat /\ \A u \in Tasks : check[u] \in Nat
  BY DEF SyncKept, SyncShape, MutexShape, KernelTyped, KernelTypeOK
<1>2. \A m \in Mutexes : waiting[m].tasks \subseteq Tasks /\ t \notin waiting[m].tasks
  BY MutexAssumption
  DEF SyncKept, SyncShape, MutexShape, KernelTyped, KernelTypeOK, Queue, WaitersAcquire,
      AcquireLabels
<1>3. CodesRead'
  BY <1>1 DEF CodesRead
<1>4. WaitersAcquire'
  BY <1>2 DEF WaitersAcquire
<1>5. mux' = mux
  BY DEF mutexVars
<1>6. \A u \in Tasks :
        /\ pc[u] = "rl_notify" => pc'[u] = "rl_notify" /\ arg'[u] = arg[u]
        /\ pc[u] \in AcquireLabels => pc'[u] = pc[u] /\ arg'[u] = arg[u]
  BY DEF AcquireLabels, ReleaseLabels
<1>7. WaitsForOwner'
  <2> SUFFICES ASSUME NEW v \in Tasks, pc'[v] = "aq_wait", check'[v] = checkCode'
               PROVE  \/ mux'[arg'[v]].tcb # Nil
                      \/ \E u \in Tasks : pc'[u] = "rl_notify" /\ arg'[u] = arg'[v]
    BY DEF WaitsForOwner
  <2>1. v # t
    BY DEF AcquireLabels
  <2>2. pc[v] = "aq_wait" /\ arg'[v] = arg[v] /\ check[v] = checkCode'
    BY <2>1
  <2>3. check[v] = checkCode
    BY <1>1, <2>2 DEF CodesRead
  <2> QED
    BY <1>5, <1>6, <2>2, <2>3 DEF WaitsForOwner
<1>8. WakeupComing'
  BY <1>2, <1>5, <1>6 DEF WakeupComing, Acquiring
<1> QED
  BY <1>3, <1>4, <1>7, <1>8

\* So no step of a composition loses the wakeup of a task that waits for a mutex.
LEMMA SyncStepWakeups ==
  ASSUME Closed, SyncKept, WaitsApart, Placed, Wakeups, NEW O, O \cap Mutexes = {},
         SyncStep(O)
  PROVE  Wakeups'
<1>1. MutexShape /\ Owned
  BY DEF SyncKept, SyncShape
<1>2. CASE UNCHANGED <<vars, syncVars>>
  BY <1>2 DEF vars, kernelVars, queueVars, taskVars, syncVars, mutexVars, Wakeups, CodesRead,
              WaitersAcquire, WaitsForOwner, WakeupComing, Acquiring
<1>3. CASE /\ Handlers \/ \E t \in Tasks : TaskStep(t) \/ EndStep(t)
           /\ UNCHANGED syncVars
  BY <1>1, <1>3, OtherStepWakeups DEF syncVars
<1> QED
  BY <1>1, <1>2, <1>3, SyncStepCases, MutexStepWakeups, AsideWakeups

\* A step that does not meddle with mutexes is at most a request for one.
LEMMA AsideLock ==
  ASSUME SyncKept, SyncKept', NEW t \in Tasks, Aside(t)
  PROVE  Lock!Next \/ (Owner' = Owner /\ Asking' = Asking)
<1> USE DEF SyncKept, SyncShape, Aside, AcquireLabels, ReleaseLabels
<1>1. Owner' = Owner
  BY DEF Owner, mutexVars
<1>2. Asking[t] = Nil /\ \A u \in Tasks \ {t} : Asking'[u] = Asking[u]
  BY DEF Asking
<1>3. CASE pc'[t] \notin AcquireLabels
  BY <1>1, <1>3 DEF Asking
<1>4. CASE pc'[t] \in AcquireLabels
  <2>1. arg'[t] \in Mutexes
    BY <1>4 DEF MutexShape, CallNamesMutex
  <2>2. Asking' = [Asking EXCEPT ![t] = arg'[t]]
    BY <1>4 DEF Asking
  <2>3. PICK m \in Mutexes : m = arg'[t]
    BY <2>1
  <2>4. Lock!Ask(t, m)
    BY <1>1, <1>2, <2>2, <2>3 DEF Lock!Ask, Owner, Asking
  <2> QED
    BY <2>4, LockSteps
<1> QED
  BY <1>3, <1>4

\* So the mutexes of a composition implement LockSpec.
LEMMA SyncStepLock ==
  ASSUME SyncKept, NEW O \in SUBSET Objects, SyncStep(O)
  PROVE  Lock!Next \/ (Owner' = Owner /\ Asking' = Asking)
<1>1. MutexShape /\ Owned
  BY DEF SyncKept, SyncShape
<1>2. CASE UNCHANGED <<vars, syncVars>>
  BY <1>2 DEF vars, taskVars, syncVars, mutexVars, Owner, Asking
<1>3. CASE /\ Handlers \/ \E t \in Tasks : TaskStep(t) \/ EndStep(t)
           /\ UNCHANGED syncVars
  BY <1>1, <1>3, OtherStepPc DEF MutexShape, syncVars, mutexVars, Owner, Asking
<1> QED
  BY <1>1, <1>2, <1>3, SyncStepCases, SyncStepKept, MutexStepLock, AsideLock

\* Only a call that begins releases or acquires a mutex.
LEMMA OthersBegin ==
  ASSUME SyncKept,
         \/ Handlers /\ UNCHANGED <<syncVars, stage>>
         \/ \E t \in Tasks : OuterStep(t) \/ InnerStep(t)
         \/ UNCHANGED <<vars, syncVars>>
  PROVE  ReleasesHeld /\ AcquiresNew
<1> USE DEF SyncKept, SyncShape, ReleasesHeld, AcquiresNew
<1>1. CASE Handlers \/ \E t \in Tasks : TaskStep(t) \/ EndStep(t)
  BY <1>1, KernelStepPc DEF EndStep, MutexShape, TaskLabels, KernelLabels, AcquireLabels
<1>2. ASSUME NEW t \in Tasks, InnerStep(t) PROVE ReleasesHeld /\ AcquiresNew
  <2>1. \A u \in Tasks \ {t} : pc'[u] = pc[u]
    BY <1>2, InnerStepOthers
  <2>2. pc[t] # "user"
    BY <1>2, InnerStepStays
    DEF CallLabels, AcquireLabels, ReleaseLabels, SemLabels, SemAcquireLabels
  <2>3. pc'[t] = "user" \/ (pc[t] \in AcquireLabels <=> pc'[t] \in AcquireLabels)
    <3>1. \/ pc'[t] = "user"
          \/ \A kind \in CallKinds : pc[t] \in kind <=> pc'[t] \in kind
      BY <1>2, InnerStepStays, SameKind
    <3> QED
      BY <3>1 DEF CallKinds
  <2> QED
    BY <2>1, <2>2, <2>3 DEF AcquireLabels
<1>3. CASE UNCHANGED <<vars, syncVars>>
  BY <1>3 DEF vars, taskVars, AcquireLabels
<1> QED
  BY <1>1, <1>2, <1>3 DEF OuterStep

\* Programs release what is not held only of the mutexes of Stray.
LEMMA SyncReleasesHeld ==
  ASSUME SyncKept, NEW O, SyncStep(O) PROVE ReleasesHeld
<1> USE DEF SyncKept, SyncShape, MutexShape, PcDomain, KernelTyped, KernelTypeOK, ReleasesHeld
<1>1. ASSUME NEW t \in Tasks, NEW m \in Mutexes, ReleaseCall(t, m) PROVE ReleasesHeld
  BY <1>1 DEF ReleaseCall, Calling, Executing, Goto
<1>2. ASSUME NEW t \in Tasks, NEW l, l # "rl_check", pc' = [pc EXCEPT ![t] = l]
      PROVE  ReleasesHeld
  BY <1>2
<1>3. ASSUME NEW t \in Tasks, Entries(t) PROVE ReleasesHeld
  BY <1>1, <1>2, <1>3 DEF Entries, Entering, GetCountCall, SemCall, Calling, Goto
<1>4. ASSUME NEW t \in Tasks, ApiCall(t, O) PROVE ReleasesHeld
  BY <1>1, <1>2, <1>4
  DEF ApiCall, AcquireCall, WaitCall, OS_Notify, Calling, Goto
<1> QED
  BY <1>3, <1>4, OthersBegin DEF SyncStep

\* And they count their owners.
LEMMA SyncStepCounts ==
  ASSUME SyncKept, CountsOwner, NEW O, SyncStep(O), ReleasesHeld PROVE CountsOwner'
<1> USE DEF CountsOwner, HeldCounted, CallCounted, FreeCounted
<1>1. MutexShape /\ Owned
  BY DEF SyncKept, SyncShape
<1>2. CASE UNCHANGED <<vars, syncVars>>
  BY <1>2 DEF vars, taskVars, syncVars, mutexVars
<1>3. CASE /\ Handlers \/ \E t \in Tasks : TaskStep(t) \/ EndStep(t)
           /\ UNCHANGED syncVars
  BY <1>1, <1>3, OtherStepPc DEF MutexShape, syncVars, mutexVars, AcquireLabels, ReleaseLabels
<1>4. ASSUME NEW t \in Tasks, Aside(t) PROVE CountsOwner'
  BY <1>4 DEF Aside, mutexVars, AcquireLabels, ReleaseLabels
<1>5. \A t \in Tasks, m \in Mutexes : ReleaseCall(t, m) => m \in held[t] \cup Stray
  BY <1>1 DEF ReleasesHeld, ReleaseCall, Calling, Executing, Goto, MutexShape, PcDomain,
              KernelTyped, KernelTypeOK
<1> QED
  BY <1>1, <1>2, <1>3, <1>4, <1>5, SyncStepCases, MutexStepCounts

\* And they leave the owners bound to notify, if none acquires what he holds.
LEMMA SyncStepBound ==
  ASSUME SyncKept, CountsOwner, OwnerBound, NEW O, SyncStep(O), ReleasesHeld, AcquiresNew
  PROVE  OwnerBound'
<1> USE DEF OwnerBound, AcquirersLack, OwnerKnown
<1>1. MutexShape /\ Owned
  BY DEF SyncKept, SyncShape
<1>2. CASE UNCHANGED <<vars, syncVars>>
  BY <1>2 DEF vars, taskVars, syncVars, mutexVars
<1>3. CASE /\ Handlers \/ \E t \in Tasks : TaskStep(t) \/ EndStep(t)
           /\ UNCHANGED syncVars
  BY <1>1, <1>3, OtherStepPc DEF MutexShape, syncVars, mutexVars, AcquireLabels, ReleaseLabels
<1>4. ASSUME NEW t \in Tasks, Aside(t) PROVE OwnerBound'
  <2>1. mux' = mux /\ held' = held
    BY <1>4 DEF Aside, mutexVars
  <2>2. /\ \A u \in Tasks \ {t} : pc'[u] = pc[u] /\ arg'[u] = arg[u]
        /\ pc[t] \notin AcquireLabels \cup ReleaseLabels
        /\ pc'[t] \notin (AcquireLabels \ {"aq_ldrex"}) \cup ReleaseLabels
    BY <1>4 DEF Aside
  <2>3. pc'[t] \in AcquireLabels => arg'[t] \notin held'[t]
    BY <2>1, <2>2 DEF AcquiresNew
  <2> QED
    BY <2>1, <2>2, <2>3 DEF AcquireLabels, ReleaseLabels
<1>5. \A t \in Tasks, m \in Mutexes : ReleaseCall(t, m) => m \in held[t] \cup Stray
  BY <1>1 DEF ReleasesHeld, ReleaseCall, Calling, Executing, Goto, MutexShape, PcDomain,
              KernelTyped, KernelTypeOK
<1>6. \A t \in Tasks, m \in Mutexes : AcquireCall(t, m) => m \notin held[t]
  BY <1>1 DEF AcquiresNew, AcquireCall, Calling, Executing, Goto, MutexShape, PcDomain,
              KernelTyped, KernelTypeOK, AcquireLabels
<1> QED
  BY <1>1, <1>2, <1>3, <1>4, <1>5, <1>6, SyncStepCases, MutexStepBound

\* A step of task t that leaves the counters alone, and neither is part of an acquire or
\* a release of a semaphore nor leads further into one than to its first step, is at most
\* a request or an offer.
LEMMA SilentCounting ==
  ASSUME SyncKept, SyncKept', NEW t \in Tasks, counter' = counter,
         \A u \in Tasks \ {t} : pc'[u] = pc[u] /\ arg'[u] = arg[u],
         pc[t] \notin SemAcquireLabels \cup {"sr_ldrex", "sr_strex"},
         pc'[t] \notin {"sa_wait", "sa_strex", "sr_strex"}
  PROVE  \/ Counting!Next
         \/ counter' = counter /\ SemAsking' = SemAsking /\ SemGiving' = SemGiving
<1> USE DEF SyncKept, SyncShape, SemAcquireLabels, SemAsking, SemGiving
<1>1. SemAsking[t] = Nil /\ SemGiving[t] = Nil
  OBVIOUS
<1>2. pc'[t] \in {"sa_ldrex", "sr_ldrex"} => arg'[t] \in Semaphores
  BY DEF SemShape, CallNamesSemaphore, SemLabels
<1>3. CASE pc'[t] = "sa_ldrex"
  <2>1. SemAsking' = [SemAsking EXCEPT ![t] = arg'[t]] /\ SemGiving' = SemGiving
    BY <1>3
  <2>2. PICK s \in Semaphores : s = arg'[t]
    BY <1>2, <1>3
  <2>3. Counting!Ask(t, s)
    BY <1>1, <2>1, <2>2 DEF Counting!Ask, Counting!Idle
  <2> QED
    BY <2>3, CountingSteps
<1>4. CASE pc'[t] = "sr_ldrex"
  <2>1. SemGiving' = [SemGiving EXCEPT ![t] = arg'[t]] /\ SemAsking' = SemAsking
    BY <1>4
  <2>2. PICK s \in Semaphores : s = arg'[t]
    BY <1>2, <1>4
  <2>3. Counting!Offer(t, s)
    BY <1>1, <2>1, <2>2 DEF Counting!Offer, Counting!Idle
  <2> QED
    BY <2>3, CountingSteps
<1>5. CASE pc'[t] \notin {"sa_ldrex", "sr_ldrex"}
  BY <1>5
<1> QED
  BY <1>3, <1>4, <1>5

\* So the semaphores of a composition implement SemaphoreSpec.
LEMMA SyncStepCounting ==
  ASSUME SizesBelowWrap, SyncKept, NEW O \in SUBSET Objects, SyncStep(O)
  PROVE  \/ Counting!Next
         \/ counter' = counter /\ SemAsking' = SemAsking /\ SemGiving' = SemGiving
<1> DEFINE Goal == \/ Counting!Next
                   \/ /\ counter' = counter
                      /\ SemAsking' = SemAsking
                      /\ SemGiving' = SemGiving
<1>0. SyncKept' /\ SemShape /\ MutexShape /\ PcDomain /\ Counted /\ Owned
  BY SyncStepKept DEF SyncKept, SyncShape, SemShape
<1>1. CASE UNCHANGED <<vars, syncVars>>
  BY <1>1 DEF vars, taskVars, syncVars, semVars, SemAsking, SemGiving
<1>2. CASE /\ Handlers \/ \E t \in Tasks : TaskStep(t) \/ EndStep(t)
           /\ UNCHANGED syncVars
  <2>1. /\ arg' = arg /\ counter' = counter
        /\ \A u \in Tasks : \A l \in SemLabels : pc'[u] = l <=> pc[u] = l
    BY <1>0, <1>2, SemOtherStepPc DEF EndStep, syncVars, semVars
  <2> QED
    BY <2>1 DEF SemAsking, SemGiving, SemLabels, SemAcquireLabels
<1>3. ASSUME NEW t \in Tasks, MutexStep(t), UNCHANGED semVars PROVE Goal
  <2>1. /\ pc[t] \notin SemLabels /\ pc'[t] \notin SemLabels /\ counter' = counter
        /\ \A u \in Tasks \ {t} : pc'[u] = pc[u] /\ arg'[u] = arg[u]
    BY <1>0, <1>3, MutexStepCurrent, MutexStepTo, OwnedByOthers
    DEF semVars, AcquireLabels, ReleaseLabels, SemLabels, SemAcquireLabels
  <2>2. /\ pc[t] \notin SemAcquireLabels \cup {"sr_ldrex", "sr_strex"}
        /\ pc'[t] \notin {"sa_wait", "sa_strex", "sr_strex"}
    BY <2>1 DEF SemLabels, SemAcquireLabels
  <2> QED
    BY <1>0, <2>1, <2>2, SilentCounting
<1>4. ASSUME NEW t \in Tasks, SemMove(t) PROVE Goal
  BY <1>0, <1>4, SemStepCounting
<1>5. ASSUME NEW t \in Tasks, WaitOrNotify(t, O), UNCHANGED semVars PROVE Goal
  <2>1. /\ pc[t] \in {"user", "wait_svc"} /\ pc'[t] \in {"user", "wait_svc"}
        /\ counter' = counter
        /\ \A u \in Tasks \ {t} : pc'[u] = pc[u] /\ arg'[u] = arg[u]
    BY <1>0, <1>5, WaitOrNotifyMoves DEF semVars, SemShape
  <2> QED
    BY <1>0, <2>1, SilentCounting DEF SemAcquireLabels
<1>6. ASSUME NEW t \in Tasks, Entries(t),
             NEW label \in {"aq_ldrex", "sa_ldrex", "sr_ldrex", "wait_svc"}, NEW o,
             Entering(t, label, o)
      PROVE  Goal
  <2>1. /\ pc[t] = "user" /\ pc'[t] = label /\ counter' = counter
        /\ \A u \in Tasks \ {t} : pc'[u] = pc[u] /\ arg'[u] = arg[u]
    BY <1>0, <1>6, EntriesMove DEF Entering, Goto, PcDomain
  <2> QED
    BY <1>0, <2>1, SilentCounting DEF SemAcquireLabels
<1>7. ASSUME NEW t \in Tasks, InnerStep(t) PROVE Goal
  BY <1>3, <1>4, <1>5, <1>7 DEF InnerStep, MutexStep, SemMove, WaitOrNotify
<1>8. ASSUME NEW t \in Tasks, Entries(t) PROVE Goal
  <2> HIDE DEF Goal
  <2> QED
    BY <1>3, <1>4, <1>6, <1>8 DEF Entries, MutexStep, SemMove
<1>9. ASSUME NEW t \in Tasks, ApiCall(t, O) PROVE Goal
  <2> HIDE DEF Goal
  <2> QED
    BY <1>3, <1>5, <1>9 DEF ApiCall, MutexStep, WaitOrNotify, syncVars
<1> QED
  BY <1>1, <1>2, <1>7, <1>8, <1>9 DEF SyncStep, OuterStep

\* At the start no function runs, and no call.
LEMMA SyncInitPromises ==
  SyncInit => /\ WaitsApart /\ CountsOwner /\ OwnerBound /\ Placed /\ RunningSorted /\ Wakeups
              /\ Lock!Init /\ Counting!Init
<1> SUFFICES ASSUME SyncInit
             PROVE  /\ WaitsApart /\ CountsOwner /\ OwnerBound /\ Placed /\ RunningSorted /\ Wakeups
                    /\ Lock!Init /\ Counting!Init
  OBVIOUS
<1>1. /\ \A t \in Tasks : pc[t] = "dormant" /\ check[t] = 0 /\ held[t] = {}
      /\ checkCode \in Nat /\ mux = [m \in Mutexes |-> [tcb |-> Nil, counter |-> 0]]
      /\ \A o \in Objects : waiting[o].tasks = {}
  BY KernelAssumption DEF SyncInit, MutexInit, Init, EmptyQueue
<1>2. WaitsApart /\ CountsOwner /\ OwnerBound
  BY <1>1, QueueAssumption
  DEF WaitsApart, CountsOwner, HeldCounted, CallCounted, FreeCounted, OwnerBound,
      AcquirersLack, OwnerKnown, AcquireLabels
<1>3. Placed /\ RunningSorted
  BY InitPlaced DEF SyncInit, MutexInit, Init, RunningSorted, Sorted, EmptyQueue
<1>4. Wakeups
  BY <1>1, MutexAssumption
  DEF Wakeups, CodesRead, WaitersAcquire, WaitsForOwner, WakeupComing
<1>5. Lock!Init
  BY <1>1 DEF Lock!Init, AcquireLabels
<1>6. Counting!Init
  BY <1>1 DEF SyncInit, Counting!Init, SemAcquireLabels
<1> QED
  BY <1>2, <1>3, <1>4, <1>5, <1>6

\* A mutex that is held names its holder and counts it once.
LEMMA OwnedCountedHeld ==
  SyncKept /\ CountsOwner => HeldIsOwned
BY DEF SyncKept, SyncShape, Owned, HoldersOwn, CountsOwner, HeldCounted, MutexShape, MuxTyped,
       HeldIsOwned

-----------------------------------------------------------------------------
\* Searches.

\* A set of numbers that is not empty has a least one.
LEMMA LeastNumber ==
  ASSUME NEW S \in SUBSET Nat, S # {}
  PROVE  \E i \in S : \A j \in S : i <= j
<1>1. PICK i \in S : \A j \in S : ~(<<j, i>> \in OpToRel(<, Nat))
  BY WFMin, NatLessThanWellFounded
<1>2. \A j, k \in Nat : <<j, k>> \in OpToRel(<, Nat) <=> j < k
  BY DEF OpToRel
<1>3. \A j \in S : ~(j < i)
  BY <1>1, <1>2
<1> QED
  BY <1>3

=============================================================================
