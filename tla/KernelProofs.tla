---------------------------- MODULE KernelProofs ----------------------------
(***************************************************************************)
(* Theorems about Kernel, for every set of tasks, objects and levels.      *)
(***************************************************************************)
EXTENDS Kernel, FiniteSetTheorems, TLAPS

-----------------------------------------------------------------------------
\* The queue operators.

\* Inserting a task in a well-formed queue gives a well-formed queue that holds
\* the old tasks and at most the new one.
LEMMA InsertedQueue ==
  ASSUME NEW q \in Queue, WellFormed(q), NEW t \in Tasks,
         NEW key \in [Tasks -> Nat], NEW r \in Inserted(q, t, key)
  PROVE  /\ r \in Queue
         /\ WellFormed(r)
         /\ q.tasks \subseteq r.tasks
         /\ r.tasks \subseteq q.tasks \cup {t}
<1>1. CASE r = q
  BY <1>1
<1>2. CASE ~Full(q)
  <2>1. PICK f \in FrontsWith(q, t, key) :
             r = [tasks |-> q.tasks \cup {t}, front |-> f]
    BY <1>2 DEF Inserted
  <2>2. f \in q.tasks \cup {t}
    BY DEF FrontsWith, WellFormed
  <2>3. r.tasks = q.tasks \cup {t} /\ r.front = f
    BY <2>1
  <2>4. q.tasks \subseteq Tasks
    BY DEF Queue
  <2>5. r \in Queue
    BY <2>1, <2>2, <2>4 DEF Queue
  <2> QED
    BY <2>2, <2>3, <2>5 DEF WellFormed
<1> QED
  BY <1>1, <1>2 DEF Inserted

\* Removing a task leaves a well-formed queue of the other tasks.
LEMMA RemovedQueue ==
  ASSUME NEW q \in Queue, WellFormed(q), NEW t, NEW key, NEW r \in Removed(q, t, key)
  PROVE  /\ r \in Queue
         /\ WellFormed(r)
         /\ r.tasks = q.tasks \ {t}
<1>1. CASE t \notin q.tasks
  <2>1. r = q
    BY <1>1 DEF Removed
  <2> QED
    BY <1>1, <2>1
<1>2. CASE t \in q.tasks
  <2>1. PICK f \in IF t = q.front THEN Fronts(q.tasks \ {t}, key) ELSE {q.front} :
             r = [tasks |-> q.tasks \ {t}, front |-> f]
    BY <1>2 DEF Removed
  <2>2. r.tasks = q.tasks \ {t} /\ r.front = f
    BY <2>1
  <2>3. q.tasks \subseteq Tasks
    BY DEF Queue
  <2>4. IF q.tasks \ {t} = {} THEN f = Nil ELSE f \in q.tasks \ {t}
    <3>1. CASE t = q.front
      BY <3>1 DEF Fronts
    <3>2. CASE t # q.front
      BY <1>2, <3>2 DEF WellFormed
    <3> QED
      BY <3>1, <3>2
  <2>5. f \in Tasks \cup {Nil}
    BY <2>3, <2>4
  <2>6. r \in Queue
    BY <2>1, <2>3, <2>5 DEF Queue
  <2> QED
    BY <2>2, <2>4, <2>6 DEF WellFormed
<1> QED
  BY <1>1, <1>2

\* The front of a well-formed queue that is not empty is a task.
LEMMA FrontIsTask ==
  ASSUME NEW q \in Queue, WellFormed(q), q.tasks # {}
  PROVE  q.front \in q.tasks /\ q.front \in Tasks
BY DEF Queue, WellFormed

-----------------------------------------------------------------------------
\* The inductive invariant behind type correctness: what the queue operators
\* need to stay typed is that the front of a queue is one of its tasks.

WellFormedQueues ==
  /\ WellFormed(running)
  /\ WellFormed(sleeping)
  /\ \A o \in Objects : WellFormed(waiting[o])

\* The part of the invariant that the extensions of Kernel share.
KernelTyped == KernelTypeOK /\ WellFormedQueues

PcTyped == pc \in [Tasks \cup {IdleTCB} -> KernelLabels \cup IdleLabels]

WaitNamesObject == \A t \in Tasks : pc[t] = "wait_svc" => arg[t] \in Objects

Typed == KernelTyped /\ Started /\ PcTyped /\ WaitNamesObject

\* The initial state is typed.
LEMMA InitTyped == Init => Typed
<1> SUFFICES ASSUME Init PROVE Typed
  OBVIOUS
<1>1. EmptyQueue \in Queue /\ WellFormed(EmptyQueue)
  BY DEF EmptyQueue, Queue, WellFormed
<1>2. WellFormedQueues
  BY <1>1 DEF Init, WellFormedQueues
<1>3. KernelTypeOK
  BY <1>1, KernelAssumption DEF Init, KernelTypeOK, Modes
<1>4. PcTyped
  BY DEF Init, PcTyped, KernelLabels, IdleLabels
<1>5. WaitNamesObject
  BY KernelAssumption DEF Init, WaitNamesObject
<1>6. Started
  BY DEF Init, Started
<1> QED
  BY <1>2, <1>3, <1>4, <1>5, <1>6 DEF Typed, KernelTyped

\* The SVC handlers keep the kernel's state typed.
LEMMA SvcTyped ==
  ASSUME KernelTyped,
         \/ _svc_OS_yield
         \/ \E new \in Tasks, level \in Nat : _svc_OS_AddTask(new, level)
         \/ _svc_OS_task_exit
         \/ currentTCB \in Tasks /\ \E o \in Objects, code \in Nat : _svc_OS_Wait(o, code)
         \/ \E o \in Objects : _svc_OS_Notify(o)
  PROVE  /\ currentTCB' \in Tasks \cup {IdleTCB, Nil}
         /\ mode' \in Modes
         /\ exclusive' \in BOOLEAN
         /\ ticks' \in Nat
         /\ checkCode' \in Nat
         /\ priority' \in [Tasks -> Nat]
         /\ data' \in [Tasks -> Nat]
         /\ running' \in Queue /\ sleeping' \in Queue
         /\ waiting' \in [Objects -> Queue]
         /\ owed' \in [Tasks -> Nat]
         /\ WellFormedQueues'
<1> USE DEF KernelTyped, KernelTypeOK, WellFormedQueues, timeVars, queueVars, Modes
<1>1. CASE _svc_OS_yield
  BY <1>1 DEF _svc_OS_yield
<1>2. ASSUME NEW new \in Tasks, NEW level \in Nat, _svc_OS_AddTask(new, level)
      PROVE  priority' \in [Tasks -> Nat] /\ running' \in Queue /\ WellFormed(running)'
  <2>1. priority' \in [Tasks -> Nat]
    BY <1>2 DEF _svc_OS_AddTask, FPS_AddTaskCallback
  <2>2. running' \in Inserted(running, new, priority')
    BY <1>2 DEF _svc_OS_AddTask, FPS_AddTaskCallback
  <2> QED
    BY <2>1, <2>2, InsertedQueue
<1>3. CASE \E new \in Tasks, level \in Nat : _svc_OS_AddTask(new, level)
  BY <1>2, <1>3 DEF _svc_OS_AddTask, FPS_AddTaskCallback
<1>4. CASE _svc_OS_task_exit
  BY <1>4, RemovedQueue DEF _svc_OS_task_exit, FPS_TaskExitCallback
<1>5. ASSUME NEW o \in Objects, NEW code \in Nat, currentTCB \in Tasks,
             _svc_OS_Wait(o, code)
      PROVE  /\ running' \in Queue /\ WellFormed(running)'
             /\ waiting' \in [Objects -> Queue]
             /\ \A p \in Objects : WellFormed(waiting[p])'
  <2>1. CASE code # checkCode
    BY <1>5, <2>1 DEF _svc_OS_Wait, FPS_TaskWaitCallback
  <2>2. CASE code = checkCode
    <3>1. running' \in Queue /\ WellFormed(running)'
      BY <1>5, <2>2, RemovedQueue DEF _svc_OS_Wait, FPS_TaskWaitCallback
    <3>2. PICK q \in Inserted(waiting[o], currentTCB, priority) :
               waiting' = [waiting EXCEPT ![o] = q]
      BY <1>5, <2>2 DEF _svc_OS_Wait, FPS_TaskWaitCallback
    <3>3. q \in Queue /\ WellFormed(q)
      BY <1>5, <3>2, InsertedQueue
    <3> QED
      BY <3>1, <3>2, <3>3
  <2> QED
    BY <2>1, <2>2
<1>6. CASE currentTCB \in Tasks /\ \E o \in Objects, code \in Nat : _svc_OS_Wait(o, code)
  BY <1>5, <1>6 DEF _svc_OS_Wait, FPS_TaskWaitCallback
<1>7. ASSUME NEW o \in Objects, _svc_OS_Notify(o)
      PROVE  /\ running' \in Queue /\ WellFormed(running)'
             /\ waiting' \in [Objects -> Queue]
             /\ \A p \in Objects : WellFormed(waiting[p])'
  <2>1. CASE waiting[o].tasks = {}
    BY <1>7, <2>1 DEF _svc_OS_Notify, FPS_TaskNotifyCallback
  <2>2. CASE waiting[o].tasks # {}
    <3>1. waiting[o].front \in Tasks
      BY <2>2, FrontIsTask
    <3>2. running' \in Queue /\ WellFormed(running)'
      BY <1>7, <2>2, <3>1, InsertedQueue DEF _svc_OS_Notify, FPS_TaskNotifyCallback
    <3>3. PICK q \in Removed(waiting[o], waiting[o].front, priority) :
               waiting' = [waiting EXCEPT ![o] = q]
      BY <1>7, <2>2 DEF _svc_OS_Notify, FPS_TaskNotifyCallback
    <3>4. q \in Queue /\ WellFormed(q)
      BY <3>3, RemovedQueue
    <3> QED
      BY <3>2, <3>3, <3>4
  <2> QED
    BY <2>1, <2>2
<1>8. CASE \E o \in Objects : _svc_OS_Notify(o)
  <2>1. PICK o \in Objects : _svc_OS_Notify(o)
    BY <1>8
  <2>2. checkCode' \in Nat /\ mode' \in Modes
    BY <2>1 DEF _svc_OS_Notify, FPS_TaskNotifyCallback
  <2> QED
    BY <1>7, <2>1, <2>2 DEF _svc_OS_Notify, FPS_TaskNotifyCallback
<1> QED
  BY <1>1, <1>3, <1>4, <1>6, <1>8

\* The kernel's own steps, the steps every task has and the steps of a task on the
\* bare kernel keep the kernel typed.
LEMMA HandlersTyped == KernelTyped /\ Handlers => KernelTyped'
<1> SUFFICES ASSUME KernelTyped, Handlers PROVE KernelTyped'
  OBVIOUS
<1> USE DEF KernelTyped, KernelTypeOK, Modes, cpuVars, timeVars, queueVars,
            taskVars, kernelVars
<1>2. CASE SysTick_Handler
  <2>1. (ticks + 1) % TickMod \in Nat
    BY KernelAssumption
  <2>2. \A t \in Tasks : (IF owed[t] = 0 THEN 0 ELSE owed[t] - 1) \in Nat
    <3>1. \A n \in Nat : (IF n = 0 THEN 0 ELSE n - 1) \in Nat
      OBVIOUS
    <3> QED
      BY <3>1
  <2>3. owed' \in [Tasks -> Nat]
    BY <1>2, <2>2 DEF SysTick_Handler
  <2> QED
    BY <1>2, <2>1, <2>3 DEF SysTick_Handler, WellFormedQueues
<1>3. CASE UpdateSleepingTasks
  <2>1. sleeping.front \in Tasks
    BY <1>3, FrontIsTask DEF UpdateSleepingTasks, Due, WellFormedQueues
  <2>2. sleeping' \in Queue /\ WellFormed(sleeping)'
    BY <1>3, RemovedQueue DEF UpdateSleepingTasks, WellFormedQueues
  <2>3. running' \in Queue /\ WellFormed(running)'
    BY <1>3, <2>1, InsertedQueue DEF UpdateSleepingTasks, WellFormedQueues
  <2>4. data' \in [Tasks -> Nat]
    BY <1>3, <2>1 DEF UpdateSleepingTasks
  <2>5. UNCHANGED <<currentTCB, exclusive, ticks, owed, waiting, checkCode,
                    priority, taskVars>> /\ mode' = "waking"
    BY <1>3 DEF UpdateSleepingTasks
  <2> QED
    BY <2>2, <2>3, <2>4, <2>5 DEF WellFormedQueues
<1>4. CASE PendSV_Handler
  <2>1. running.front \in Tasks \cup {Nil}
    BY DEF Queue
  <2> QED
    BY <1>4, <2>1 DEF PendSV_Handler, FPS_SchedulerCallback, WellFormedQueues
<1>5. CASE ExtractNull \/ HeapTorn
  BY <1>5 DEF ExtractNull, HeapTorn, WellFormedQueues
<1>6. CASE OS_Start
  BY <1>6 DEF OS_Start, WellFormedQueues
<1>7. CASE IdleSchedule
  BY <1>7, KernelAssumption DEF IdleSchedule, Goto, WellFormedQueues
<1>8. CASE \E new \in Tasks : \E level \in Levels[new] : BootAddTask(new, level)
  <2>1. PICK new \in Tasks : \E level \in Levels[new] : BootAddTask(new, level)
    BY <1>8
  <2>0. PICK level \in Levels[new] : BootAddTask(new, level)
    BY <2>1
  <2>2. level \in Nat
    BY KernelAssumption
  <2> QED
    BY <2>0, <2>2, SvcTyped DEF BootAddTask, Goto
<1> QED
  BY <1>2, <1>3, <1>4, <1>5, <1>6, <1>7, <1>8 DEF Handlers

\* The steps of OS_Sleep, of OS_AddTask and past a task's end keep the kernel's
\* state typed.
LEMMA TaskStepTyped ==
  ASSUME NEW t \in Tasks, KernelTyped, TaskStep(t) PROVE KernelTyped'
<1> USE DEF KernelTyped, KernelTypeOK, Modes, cpuVars, timeVars, queueVars,
            taskVars, kernelVars
<1>1. CASE \E new \in Tasks : \E level \in Levels[new] : OS_AddTask(t, new, level)
  <2>0. PICK new \in Tasks : \E level \in Levels[new] : OS_AddTask(t, new, level)
    BY <1>1
  <2>1. PICK level \in Levels[new] : OS_AddTask(t, new, level)
    BY <2>0
  <2>2. level \in Nat
    BY KernelAssumption
  <2>3. calls' \in Nat
    BY <2>1 DEF OS_AddTask
  <2> QED
    BY <2>1, <2>2, <2>3, SvcTyped DEF OS_AddTask, Goto
<1>2. CASE RunPastEnd(t)
  BY <1>2 DEF RunPastEnd, WellFormedQueues
<1>3. CASE SleepCall(t)
  BY <1>3 DEF SleepCall, Calling, Goto, WellFormedQueues
<1>4. CASE SleepStamp(t)
  <2>1. PICK time \in Durations :
             /\ data' = [data EXCEPT ![t] = (ticks + time) % TickMod]
             /\ owed' = [owed EXCEPT ![t] = time + 1]
    BY <1>4 DEF SleepStamp
  <2>2. (ticks + time) % TickMod \in Nat /\ time + 1 \in Nat
    BY KernelAssumption
  <2>3. data' \in [Tasks -> Nat] /\ owed' \in [Tasks -> Nat]
    BY <2>1, <2>2
  <2> QED
    BY <1>4, <2>3 DEF SleepStamp, Goto, WellFormedQueues
<1>5. CASE SleepStrex(t)
  BY <1>5 DEF SleepStrex, Goto, WellFormedQueues
<1>6. CASE SleepRemove(t)
  BY <1>6, RemovedQueue DEF SleepRemove, Goto, WellFormedQueues
<1>7. CASE SleepInsert(t)
  BY <1>7, InsertedQueue DEF SleepInsert, Goto, WellFormedQueues
<1>8. CASE SleepYield(t)
  BY <1>8, SvcTyped DEF SleepYield, Goto
<1> QED
  BY <1>1, <1>2, <1>3, <1>4, <1>5, <1>6, <1>7, <1>8 DEF TaskStep

\* The steps of a task on the bare kernel keep the kernel's state typed.
LEMMA RawStepTyped ==
  ASSUME NEW t \in Tasks, KernelTyped, WaitNamesObject, RawStep(t) PROVE KernelTyped'
<1> USE DEF KernelTyped, KernelTypeOK, WaitNamesObject, Modes, cpuVars, timeVars,
            queueVars, taskVars, kernelVars
<1>1. CASE TaskEnd(t)
  BY <1>1, SvcTyped DEF TaskEnd, Goto
<1>2. CASE OS_Yield(t)
  BY <1>2, SvcTyped DEF OS_Yield, Calling, Goto
<1>3. CASE \E o \in Objects : WaitCall(t, o)
  BY <1>3 DEF WaitCall, Calling, Goto, WellFormedQueues
<1>4. CASE \E o \in Objects : OS_Notify(t, o)
  <2>1. PICK o \in Objects : OS_Notify(t, o)
    BY <1>4
  <2>2. calls' \in Nat
    BY <2>1 DEF OS_Notify, Calling
  <2> QED
    BY <2>1, <2>2, SvcTyped DEF OS_Notify, Calling, Goto
<1>5. CASE WaitSvc(t)
  <2>1. currentTCB \in Tasks /\ arg[t] \in Objects /\ check[t] \in Nat
    BY <1>5 DEF WaitSvc, Executing
  <2>2. _svc_OS_Wait(arg[t], check[t])
    BY <1>5 DEF WaitSvc
  <2> QED
    BY <1>5, <2>1, <2>2, SvcTyped DEF WaitSvc, Return, Goto
<1> QED
  BY <1>1, <1>2, <1>3, <1>4, <1>5 DEF RawStep

\* No handler leaves the current task null.
LEMMA HandlersStarted == Started /\ Handlers => Started'
<1> SUFFICES ASSUME Started, Handlers PROVE Started'
  OBVIOUS
<1> USE QueueAssumption, KernelAssumption DEF Started
<1>1. CASE PendSV_Handler
  BY <1>1 DEF PendSV_Handler, FPS_SchedulerCallback
<1>2. CASE SysTick_Handler \/ UpdateSleepingTasks \/ ExtractNull \/ HeapTorn
  BY <1>2 DEF SysTick_Handler, UpdateSleepingTasks, ExtractNull, HeapTorn, PeeksNull
<1>3. CASE OS_Start \/ IdleSchedule
  BY <1>3 DEF OS_Start, IdleSchedule, Executing
<1>4. CASE \E new \in Tasks : \E level \in Levels[new] : BootAddTask(new, level)
  BY <1>4 DEF BootAddTask, _svc_OS_AddTask
<1> QED
  BY <1>1, <1>2, <1>3, <1>4 DEF Handlers

\* Every step keeps the state typed.
LEMMA NextTyped == Typed /\ [Next]_vars => Typed'
<1> SUFFICES ASSUME Typed, [Next]_vars PROVE Typed'
  OBVIOUS
<1> USE DEF Typed
<1>1. KernelTyped'
  <2>1. CASE UNCHANGED vars
    BY <2>1 DEF vars, kernelVars, cpuVars, timeVars, queueVars, taskVars,
                KernelTyped, KernelTypeOK, WellFormedQueues
  <2>2. CASE Next
    BY <2>2, HandlersTyped, TaskStepTyped, RawStepTyped DEF Next
  <2> QED
    BY <2>1, <2>2
<1>2. PcTyped' /\ WaitNamesObject'
  <2> USE DEF PcTyped, WaitNamesObject, KernelTyped, KernelTypeOK, KernelLabels, IdleLabels, taskVars, kernelVars,
              Goto, Return, Calling, Executing
  <2>1. CASE UNCHANGED vars
    BY <2>1 DEF vars
  <2>2. CASE Handlers
    BY <2>2, KernelAssumption
       DEF Handlers, SysTick_Handler, UpdateSleepingTasks, PendSV_Handler, ExtractNull,
           HeapTorn, OS_Start, IdleSchedule, BootAddTask
  <2>3. ASSUME NEW t \in Tasks, TaskStep(t) PROVE PcTyped' /\ WaitNamesObject'
    BY <2>3 DEF TaskStep, OS_AddTask, RunPastEnd, SleepCall, SleepStamp,
                SleepStrex, SleepRemove, SleepInsert, SleepYield
  <2>4. ASSUME NEW t \in Tasks, RawStep(t) PROVE PcTyped' /\ WaitNamesObject'
    BY <2>4 DEF RawStep, TaskEnd, OS_Yield, WaitCall, OS_Notify, WaitSvc
  <2> QED
    BY <2>1, <2>2, <2>3, <2>4 DEF Next
<1>3. Started'
  <2> USE QueueAssumption, KernelAssumption DEF Started, cpuVars, kernelVars, Executing
  <2>1. CASE UNCHANGED vars
    BY <2>1 DEF vars
  <2>2. CASE Handlers
    BY <2>2, HandlersStarted
  <2>3. ASSUME NEW t \in Tasks, TaskStep(t) \/ RawStep(t) PROVE currentTCB' = t
    BY <2>3 DEF TaskStep, OS_AddTask, _svc_OS_AddTask, FPS_AddTaskCallback, RunPastEnd, SleepCall,
                SleepStamp, SleepStrex, SleepRemove, SleepInsert, SleepYield,
                RawStep, TaskEnd, OS_Yield, WaitCall, OS_Notify, WaitSvc, Calling,
                _svc_OS_yield, _svc_OS_task_exit, _svc_OS_Wait, _svc_OS_Notify
  <2> QED
    BY <2>1, <2>2, <2>3 DEF Next
<1> QED
  BY <1>1, <1>2, <1>3

\* The kernel's variables stay typed in every execution.
THEOREM TypeCorrect == Spec => []TypeOK
<1>1. Spec => []Typed
  BY InitTyped, NextTyped, PTL DEF Spec
<1>2. Typed => TypeOK
  BY DEF Typed, KernelTyped, PcTyped, TypeOK
<1> QED
  BY <1>1, <1>2, PTL

-----------------------------------------------------------------------------
\* Only ready tasks run, whoever adds tasks.

\* A step that leaves the core in thread mode either leaves the current task and
\* its place in the running queue alone or is the task's own OS_Sleep.
LEMMA NextReadyRuns == Typed /\ ReadyRuns /\ [Next]_vars => ReadyRuns'
<1> SUFFICES ASSUME Typed, ReadyRuns, [Next]_vars PROVE ReadyRuns'
  OBVIOUS
<1> USE DEF Typed, KernelTyped, KernelTypeOK, PcTyped, ReadyRuns, SleepWindow,
            taskVars, kernelVars, cpuVars, queueVars, timeVars, Executing, Goto,
            Return, Calling
<1>1. CASE UNCHANGED vars
  BY <1>1 DEF vars
<1>2. CASE PendSV_Handler
  BY <1>2, KernelAssumption, QueueAssumption
  DEF PendSV_Handler, FPS_SchedulerCallback, WellFormedQueues, WellFormed, Queue
<1>3. CASE Handlers /\ ~PendSV_Handler
  BY <1>3, KernelAssumption
  DEF Handlers, SysTick_Handler, UpdateSleepingTasks, ExtractNull, HeapTorn, OS_Start,
      IdleSchedule, BootAddTask, _svc_OS_AddTask, FPS_AddTaskCallback
<1>4. ASSUME NEW t \in Tasks, TaskStep(t) PROVE ReadyRuns'
  <2>1. CASE \E new \in Tasks : \E level \in Levels[new] : OS_AddTask(t, new, level)
    <3>1. PICK new \in Tasks : \E level \in Levels[new] : OS_AddTask(t, new, level)
      BY <2>1
    <3>2. PICK level \in Levels[new] : OS_AddTask(t, new, level)
      BY <3>1
    <3>3. priority' \in [Tasks -> Nat] /\ running' \in Inserted(running, new, priority')
      BY <3>2, KernelAssumption DEF OS_AddTask, _svc_OS_AddTask, FPS_AddTaskCallback
    <3>4. running.tasks \subseteq running'.tasks
      BY <3>3, InsertedQueue DEF WellFormedQueues
    <3>5. t \in running.tasks /\ currentTCB' = t
      BY <3>2 DEF OS_AddTask, _svc_OS_AddTask, FPS_AddTaskCallback
    <3> QED
      BY <3>4, <3>5
  <2>2. CASE RunPastEnd(t) \/ SleepCall(t) \/ SleepStamp(t) \/ SleepStrex(t)
             \/ SleepRemove(t) \/ SleepInsert(t) \/ SleepYield(t)
    BY <2>2 DEF RunPastEnd, SleepCall, SleepStamp, SleepStrex, SleepRemove,
                SleepInsert, SleepYield, _svc_OS_yield
  <2> QED
    BY <1>4, <2>1, <2>2 DEF TaskStep
<1>5. ASSUME NEW t \in Tasks, RawStep(t) PROVE ReadyRuns'
  BY <1>5 DEF RawStep, TaskEnd, OS_Yield, WaitCall, OS_Notify, WaitSvc,
              _svc_OS_task_exit, FPS_TaskExitCallback, _svc_OS_yield, _svc_OS_Wait, FPS_TaskWaitCallback, _svc_OS_Notify, FPS_TaskNotifyCallback
<1> QED
  BY <1>1, <1>2, <1>3, <1>4, <1>5 DEF Next

\* The core never executes a task that sleeps, waits or was not added.
THEOREM OnlyReadyRun == Spec => []ReadyRuns
<1>1. Init => Typed /\ ReadyRuns
  BY InitTyped DEF Init, ReadyRuns
<1>2. Typed /\ ReadyRuns /\ [Next]_vars => (Typed /\ ReadyRuns)'
  BY NextTyped, NextReadyRuns
<1> QED
  BY <1>1, <1>2, PTL DEF Spec

-----------------------------------------------------------------------------
\* Every task is in exactly one queue, if all tasks are added before OS_Start and
\* every queue has room for all of them.

Closed ==
  /\ ~Spawning
  /\ IsFiniteSet(Tasks)
  /\ Cardinality(Tasks) <= QueueSlots

\* A queue with room for all tasks never drops the one that is inserted.
LEMMA RoomForAll ==
  ASSUME Closed, NEW q \in Queue, WellFormed(q), NEW t \in Tasks,
         t \notin q.tasks, NEW key \in [Tasks -> Nat], NEW r \in Inserted(q, t, key)
  PROVE  r.tasks = q.tasks \cup {t}
<1>1. q.tasks \in SUBSET (Tasks \ {t})
  BY DEF Queue
<1>2. /\ IsFiniteSet(Tasks \ {t})
      /\ Cardinality(Tasks \ {t}) = Cardinality(Tasks) - 1
  BY FS_RemoveElement DEF Closed
<1>3. IsFiniteSet(q.tasks) /\ Cardinality(q.tasks) <= Cardinality(Tasks) - 1
  BY <1>1, <1>2, FS_Subset
<1>4. Cardinality(q.tasks) \in Nat /\ Cardinality(Tasks) \in Nat
  BY <1>3, FS_CardinalityType DEF Closed
<1>5. ~Full(q)
  BY <1>3, <1>4, QueueAssumption DEF Full, Closed
<1>6. PICK f \in FrontsWith(q, t, key) :
           r = [tasks |-> q.tasks \cup {t}, front |-> f]
  BY <1>5 DEF Inserted
<1> QED
  BY <1>6

Waits(t) == \E o \in Objects : t \in waiting[o].tasks

\* No task is in two queues.
Apart ==
  \A t \in Tasks :
    /\ ~(t \in running.tasks /\ t \in sleeping.tasks)
    /\ Waits(t) => t \notin running.tasks /\ t \notin sleeping.tasks
    /\ \A o, p \in Objects :
         t \in waiting[o].tasks /\ t \in waiting[p].tasks => o = p

\* A task that was added and has not ended is in a queue, unless it executes
\* between the two queue operations of FPS_TaskSleepCallback.
Present ==
  \A t \in Tasks :
    pc[t] \in {"dormant", "exited", "sleep_insert"} <=>
      ~(t \in running.tasks \/ t \in sleeping.tasks \/ Waits(t))

\* Thread mode executes the front of the running queue, or a task that has just
\* left this queue in OS_Sleep, or the idle task when the queue is empty.
Dispatched ==
  /\ mode = "boot" => pc[IdleTCB] = "idle_schedule"
  /\ mode = "thread" =>
       /\ currentTCB # Nil
       /\ currentTCB \in Tasks =>
            \/ currentTCB = running.front
            \/ pc[currentTCB] \in SleepWindow /\ currentTCB \notin running.tasks
       /\ currentTCB = IdleTCB =>
            (pc[IdleTCB] = "idle_loop" => running.tasks = {})

PcDomain == DOMAIN pc = Tasks \cup {IdleTCB}

Placed == KernelTyped /\ PcDomain /\ Apart /\ Present /\ Dispatched

\* Adding a task puts it into the running queue, which has room for it.
LEMMA AddTaskMoves ==
  ASSUME Closed, KernelTyped, NEW new \in Tasks, NEW level \in Nat,
         new \notin running.tasks, _svc_OS_AddTask(new, level)
  PROVE  running'.tasks = running.tasks \cup {new}
<1>1. priority' \in [Tasks -> Nat] /\ running' \in Inserted(running, new, priority')
  BY DEF _svc_OS_AddTask, FPS_AddTaskCallback, KernelTyped, KernelTypeOK
<1> QED
  BY <1>1, RoomForAll DEF KernelTyped, KernelTypeOK, WellFormedQueues

\* OS_Wait with a current check code moves its caller from the running queue to the
\* object's waiting queue, which has room for it.
LEMMA WaitMoves ==
  ASSUME Closed, KernelTyped, currentTCB \in Tasks, NEW o \in Objects, NEW code,
         code = checkCode, currentTCB \notin waiting[o].tasks, _svc_OS_Wait(o, code)
  PROVE  /\ running'.tasks = running.tasks \ {currentTCB}
         /\ sleeping' = sleeping
         /\ waiting'[o].tasks = waiting[o].tasks \cup {currentTCB}
         /\ \A p \in Objects \ {o} : waiting'[p] = waiting[p]
         /\ mode' = "pendsv"
<1> USE DEF KernelTyped, KernelTypeOK, WellFormedQueues
<1>1. running' \in Removed(running, currentTCB, priority)
  BY DEF _svc_OS_Wait, FPS_TaskWaitCallback
<1>2. running'.tasks = running.tasks \ {currentTCB}
  BY <1>1, RemovedQueue
<1>3. PICK q \in Inserted(waiting[o], currentTCB, priority) :
           waiting' = [waiting EXCEPT ![o] = q]
  BY DEF _svc_OS_Wait, FPS_TaskWaitCallback
<1>4. q.tasks = waiting[o].tasks \cup {currentTCB}
  BY <1>3, RoomForAll
<1> QED
  BY <1>2, <1>3, <1>4 DEF _svc_OS_Wait, FPS_TaskWaitCallback

\* OS_Notify of an object that tasks wait for moves one of them to the running
\* queue, which has room for it.
LEMMA NotifyMoves ==
  ASSUME Closed, KernelTyped, Apart, NEW o \in Objects, waiting[o].tasks # {},
         _svc_OS_Notify(o)
  PROVE  \E t \in waiting[o].tasks :
           /\ running'.tasks = running.tasks \cup {t}
           /\ sleeping' = sleeping
           /\ waiting'[o].tasks = waiting[o].tasks \ {t}
           /\ \A p \in Objects \ {o} : waiting'[p] = waiting[p]
           /\ mode' = "pendsv"
<1> USE DEF KernelTyped, KernelTypeOK, WellFormedQueues
<1> DEFINE t == waiting[o].front
<1>1. t \in waiting[o].tasks /\ t \in Tasks
  BY FrontIsTask
<1>2. t \notin running.tasks
  BY <1>1 DEF Apart, Waits
<1>3. running' \in Inserted(running, t, priority)
  BY DEF _svc_OS_Notify, FPS_TaskNotifyCallback
<1>4. running'.tasks = running.tasks \cup {t}
  BY <1>1, <1>2, <1>3, RoomForAll
<1>5. PICK q \in Removed(waiting[o], t, priority) :
           waiting' = [waiting EXCEPT ![o] = q]
  BY DEF _svc_OS_Notify, FPS_TaskNotifyCallback
<1>6. q.tasks = waiting[o].tasks \ {t}
  BY <1>5, RemovedQueue
<1> QED
  BY <1>1, <1>4, <1>5, <1>6 DEF _svc_OS_Notify, FPS_TaskNotifyCallback

\* A current task outside the window of OS_Sleep is the front of the running queue.
LEMMA CurrentInRunning ==
  ASSUME Placed, NEW t \in Tasks, mode = "thread", currentTCB = t,
         pc[t] \notin SleepWindow
  PROVE  t = running.front /\ t \in running.tasks
BY QueueAssumption
DEF Placed, Dispatched, KernelTyped, KernelTypeOK, WellFormedQueues, WellFormed

\* A wakeup moves a task from the sleeping to the running queue.
LEMMA HandlersPlaced == Closed /\ Placed /\ Handlers => Placed'
<1> SUFFICES ASSUME Closed, Placed, Handlers PROVE Placed'
  OBVIOUS
<1> USE DEF Placed, PcDomain, taskVars, cpuVars, timeVars, queueVars
<1>0. KernelTyped'
  BY HandlersTyped
<1>1. CASE SysTick_Handler \/ ExtractNull \/ HeapTorn
  BY <1>0, <1>1 DEF SysTick_Handler, ExtractNull, HeapTorn, Apart, Present, Waits,
                    Dispatched
<1>2. CASE UpdateSleepingTasks
  <2> DEFINE t == sleeping.front
  <2>1. t \in sleeping.tasks /\ t \in Tasks
    BY <1>2, FrontIsTask
    DEF UpdateSleepingTasks, Due, KernelTyped, KernelTypeOK, WellFormedQueues
  <2>2. t \notin running.tasks
    BY <2>1 DEF Apart
  <2>3. running'.tasks = running.tasks \cup {t}
    BY <1>2, <2>1, <2>2, RoomForAll
    DEF UpdateSleepingTasks, KernelTyped, KernelTypeOK, WellFormedQueues
  <2>4. sleeping'.tasks = sleeping.tasks \ {t}
    BY <1>2, RemovedQueue
    DEF UpdateSleepingTasks, KernelTyped, KernelTypeOK, WellFormedQueues
  <2>5. waiting' = waiting /\ pc' = pc /\ mode' = "waking"
    BY <1>2 DEF UpdateSleepingTasks
  <2>6. Apart'
    BY <2>1, <2>3, <2>4, <2>5 DEF Apart, Waits
  <2>7. Present'
    BY <2>1, <2>3, <2>4, <2>5 DEF Present, Waits
  <2> QED
    BY <1>0, <2>5, <2>6, <2>7 DEF Dispatched
<1>3. CASE PendSV_Handler
  <2>1. Apart' /\ Present' /\ pc' = pc
    BY <1>3 DEF PendSV_Handler, FPS_SchedulerCallback, Apart, Present, Waits
  <2>2. Dispatched'
    BY <1>3, KernelAssumption, QueueAssumption
    DEF PendSV_Handler, FPS_SchedulerCallback, Dispatched, KernelTyped, KernelTypeOK, WellFormedQueues,
        WellFormed, Queue
  <2> QED
    BY <1>0, <2>1, <2>2
<1>4. CASE OS_Start
  BY <1>0, <1>4, KernelAssumption DEF OS_Start, Apart, Present, Waits, Dispatched
<1>5. CASE IdleSchedule
  BY <1>0, <1>5, KernelAssumption
  DEF IdleSchedule, Goto, Apart, Present, Waits, Dispatched
<1>6. ASSUME NEW new \in Tasks, NEW level \in Levels[new], BootAddTask(new, level)
      PROVE  Placed'
  <2>1. level \in Nat
    BY KernelAssumption
  <2>2. new \notin running.tasks /\ new \notin sleeping.tasks /\ ~Waits(new)
    BY <1>6 DEF BootAddTask, Present
  <2>3. running'.tasks = running.tasks \cup {new}
    BY <1>6, <2>1, <2>2, AddTaskMoves DEF BootAddTask
  <2>4. sleeping' = sleeping /\ waiting' = waiting /\ mode' = "boot"
    BY <1>6 DEF BootAddTask, _svc_OS_AddTask, FPS_AddTaskCallback
  <2>5. pc' = [pc EXCEPT ![new] = "user"]
    BY <1>6 DEF BootAddTask, Goto
  <2>6. Apart'
    BY <2>2, <2>3, <2>4 DEF Apart, Waits
  <2>7. Present'
    BY <2>2, <2>3, <2>4, <2>5 DEF Present, Waits
  <2>8. Dispatched'
    BY <1>6, <2>4, <2>5, KernelAssumption DEF Dispatched, BootAddTask
  <2> QED
    BY <1>0, <2>5, <2>6, <2>7, <2>8
<1> QED
  BY <1>1, <1>2, <1>3, <1>4, <1>5, <1>6 DEF Handlers

\* OS_Sleep moves its caller from the running to the sleeping queue.
LEMMA TaskStepPlaced ==
  ASSUME Closed, Placed, NEW t \in Tasks, TaskStep(t) PROVE Placed'
<1> USE DEF Placed, PcDomain, taskVars, cpuVars, timeVars, queueVars, kernelVars,
            Executing, Goto
<1>0. KernelTyped'
  BY TaskStepTyped
<1>1. ~\E new \in Tasks : \E level \in Levels[new] : OS_AddTask(t, new, level)
  BY DEF OS_AddTask, Closed
<1>2. CASE RunPastEnd(t)
  BY <1>0, <1>2 DEF RunPastEnd, Apart, Present, Waits, Dispatched
<1>3. CASE SleepCall(t) \/ SleepStamp(t) \/ SleepStrex(t)
  <2>1. t = running.front /\ currentTCB' = t /\ running' = running
    BY <1>3, CurrentInRunning
    DEF SleepCall, SleepStamp, SleepStrex, Calling, SleepWindow
  <2>2. Apart' /\ Present' /\ PcDomain'
    BY <1>3 DEF SleepCall, SleepStamp, SleepStrex, Calling, Apart, Present, Waits
  <2>3. Dispatched'
    BY <1>3, <2>1, KernelAssumption
    DEF SleepCall, SleepStamp, SleepStrex, Calling, Dispatched
  <2> QED
    BY <1>0, <2>2, <2>3
<1>4. CASE SleepRemove(t)
  <2>1. t \in running.tasks
    BY <1>4, CurrentInRunning DEF SleepRemove, SleepWindow
  <2>2. running'.tasks = running.tasks \ {t}
    BY <1>4, RemovedQueue DEF SleepRemove, KernelTyped, KernelTypeOK, WellFormedQueues
  <2>3. /\ sleeping' = sleeping /\ waiting' = waiting /\ currentTCB' = t
        /\ mode' = "thread" /\ pc' = [pc EXCEPT ![t] = "sleep_insert"]
    BY <1>4 DEF SleepRemove
  <2>4. Apart'
    BY <2>2, <2>3 DEF Apart, Waits
  <2>5. Present'
    BY <2>1, <2>2, <2>3 DEF Present, Apart, Waits
  <2>6. Dispatched'
    BY <2>2, <2>3, KernelAssumption, QueueAssumption DEF Dispatched, SleepWindow
  <2> QED
    BY <1>0, <2>3, <2>4, <2>5, <2>6
<1>5. CASE SleepInsert(t)
  <2>1. t \notin running.tasks /\ t \notin sleeping.tasks /\ ~Waits(t)
    BY <1>5 DEF SleepInsert, Present
  <2>2. sleeping'.tasks = sleeping.tasks \cup {t}
    BY <1>5, <2>1, RoomForAll
    DEF SleepInsert, KernelTyped, KernelTypeOK, WellFormedQueues
  <2>3. /\ running' = running /\ waiting' = waiting /\ currentTCB' = t
        /\ mode' = "thread" /\ pc' = [pc EXCEPT ![t] = "sleep_yield"]
    BY <1>5 DEF SleepInsert
  <2>4. Apart'
    BY <2>1, <2>2, <2>3 DEF Apart, Waits
  <2>5. Present'
    BY <2>1, <2>2, <2>3 DEF Present, Waits
  <2>6. Dispatched'
    BY <2>1, <2>3, KernelAssumption, QueueAssumption DEF Dispatched, SleepWindow
  <2> QED
    BY <1>0, <2>3, <2>4, <2>5, <2>6
<1>6. CASE SleepYield(t)
  BY <1>0, <1>6, KernelAssumption
  DEF SleepYield, _svc_OS_yield, Apart, Present, Waits, Dispatched
<1> QED
  BY <1>1, <1>2, <1>3, <1>4, <1>5, <1>6 DEF TaskStep

\* The labels of a task that is in the running queue while it executes.
Live(label) == label \notin {"dormant", "exited"} \cup SleepWindow

\* The next four lemmas are about a step of the current task t from a live label,
\* whatever the call is that it belongs to.  A step that leaves the queues alone
\* leaves every task where it is.
LEMMA LocalPlaced ==
  ASSUME Placed, KernelTyped', NEW t \in Tasks, mode = "thread", currentTCB = t,
         Live(pc[t]), NEW to, Live(to), pc' = [pc EXCEPT ![t] = to],
         UNCHANGED <<running, sleeping, waiting>>,
         currentTCB' = t, mode' \in {"thread", "pendsv"}
  PROVE  Placed'
<1> USE DEF Placed, PcDomain, Live, SleepWindow
<1>1. t = running.front
  BY CurrentInRunning
<1>2. Apart' /\ Present' /\ PcDomain'
  BY DEF Apart, Present, Waits
<1>3. Dispatched'
  BY <1>1, KernelAssumption DEF Dispatched
<1> QED
  BY <1>2, <1>3

\* A task that ends is the front of the running queue, so that the right task is
\* extracted.
LEMMA EndPlaced ==
  ASSUME Placed, KernelTyped', NEW t \in Tasks, TaskEnd(t)
  PROVE  Placed'
<1> USE DEF Placed, PcDomain
<1>1. t = running.front /\ t \in running.tasks
  BY CurrentInRunning DEF TaskEnd, Executing, SleepWindow
<1>2. running'.tasks = running.tasks \ {t}
  BY <1>1, RemovedQueue
  DEF TaskEnd, _svc_OS_task_exit, FPS_TaskExitCallback, KernelTyped, KernelTypeOK, WellFormedQueues
<1>3. /\ sleeping' = sleeping /\ waiting' = waiting /\ mode' = "pendsv"
      /\ pc' = [pc EXCEPT ![t] = "exited"]
  BY DEF TaskEnd, Goto, _svc_OS_task_exit, FPS_TaskExitCallback
<1>4. Apart'
  BY <1>2, <1>3 DEF Apart, Waits
<1>5. Present'
  BY <1>1, <1>2, <1>3 DEF Present, Apart, Waits
<1> QED
  BY <1>3, <1>4, <1>5 DEF Dispatched

\* A task that is notified enters the running queue.
LEMMA NotifyPlaced ==
  ASSUME Closed, Placed, KernelTyped', NEW t \in Tasks, mode = "thread", currentTCB = t,
         Live(pc[t]), NEW to, Live(to), pc' = [pc EXCEPT ![t] = to],
         NEW o \in Objects, _svc_OS_Notify(o)
  PROVE  Placed'
<1> USE DEF Placed, PcDomain, Live, SleepWindow
<1>1. CASE waiting[o].tasks = {}
  <2>1. /\ UNCHANGED <<running, sleeping, waiting>> /\ mode' = "thread"
        /\ currentTCB' = t
    BY <1>1 DEF _svc_OS_Notify, FPS_TaskNotifyCallback
  <2> QED
    BY <2>1, LocalPlaced
<1>2. CASE waiting[o].tasks # {}
  <2>1. PICK u \in waiting[o].tasks :
             /\ running'.tasks = running.tasks \cup {u}
             /\ sleeping' = sleeping
             /\ waiting'[o].tasks = waiting[o].tasks \ {u}
             /\ \A p \in Objects \ {o} : waiting'[p] = waiting[p]
             /\ mode' = "pendsv"
    BY <1>2, NotifyMoves
  <2>2. u \in Tasks
    BY DEF KernelTyped, KernelTypeOK, Queue
  <2>3. Apart'
    BY <2>1, <2>2 DEF Apart, Waits
  <2>4. Present'
    BY <2>1, <2>2 DEF Present, Apart, Waits
  <2> QED
    BY <2>1, <2>3, <2>4 DEF Dispatched
<1> QED
  BY <1>1, <1>2

\* A task that waits leaves the running queue for the queue of the object.
LEMMA WaitPlaced ==
  ASSUME Closed, Placed, KernelTyped', NEW t \in Tasks, mode = "thread", currentTCB = t,
         Live(pc[t]), NEW to, Live(to), pc' = [pc EXCEPT ![t] = to],
         NEW o \in Objects, NEW code, _svc_OS_Wait(o, code)
  PROVE  Placed'
<1> USE DEF Placed, PcDomain, Live, SleepWindow
<1>1. t = running.front /\ t \in running.tasks
  BY CurrentInRunning
<1>2. CASE code # checkCode
  <2>1. /\ UNCHANGED <<running, sleeping, waiting>> /\ mode' = "thread"
        /\ currentTCB' = t
    BY <1>2 DEF _svc_OS_Wait, FPS_TaskWaitCallback
  <2> QED
    BY <2>1, LocalPlaced
<1>3. CASE code = checkCode
  <2>1. /\ running'.tasks = running.tasks \ {t}
        /\ sleeping' = sleeping
        /\ waiting'[o].tasks = waiting[o].tasks \cup {t}
        /\ \A p \in Objects \ {o} : waiting'[p] = waiting[p]
        /\ mode' = "pendsv"
    BY <1>1, <1>3, WaitMoves DEF Apart, Waits
  <2>2. Apart'
    BY <1>1, <2>1 DEF Apart, Waits
  <2>3. Present'
    BY <1>1, <2>1 DEF Present, Apart, Waits
  <2> QED
    BY <2>1, <2>2, <2>3 DEF Dispatched
<1> QED
  BY <1>2, <1>3

\* The steps of a task on the bare kernel keep every task in its place.
LEMMA RawStepPlaced ==
  ASSUME Closed, Placed, WaitNamesObject, NEW t \in Tasks, RawStep(t) PROVE Placed'
<1> USE DEF Executing, Goto, Return, Calling
<1>0. KernelTyped'
  BY RawStepTyped DEF Placed
<1>1. CASE TaskEnd(t)
  BY <1>0, <1>1, EndPlaced
<1>2. CASE OS_Yield(t)
  BY <1>0, <1>2, LocalPlaced
  DEF OS_Yield, _svc_OS_yield, timeVars, queueVars, Live, SleepWindow
<1>3. ASSUME NEW o \in Objects, WaitCall(t, o) PROVE Placed'
  BY <1>0, <1>3, LocalPlaced
  DEF WaitCall, kernelVars, cpuVars, queueVars, Live, SleepWindow
<1>4. ASSUME NEW o \in Objects, OS_Notify(t, o) PROVE Placed'
  BY <1>0, <1>4, NotifyPlaced DEF OS_Notify, Live, SleepWindow
<1>5. CASE WaitSvc(t)
  <2>1. arg[t] \in Objects
    BY <1>5 DEF WaitSvc, WaitNamesObject
  <2> QED
    BY <1>0, <1>5, <2>1, WaitPlaced DEF WaitSvc, Live, SleepWindow
<1> QED
  BY <1>1, <1>2, <1>3, <1>4, <1>5 DEF RawStep

\* Before main() adds a task every task is in its place.
LEMMA InitPlaced == Init => Placed
<1> SUFFICES ASSUME Init PROVE Placed
  OBVIOUS
<1>1. KernelTyped
  BY InitTyped DEF Typed
<1>2. PcDomain /\ Apart /\ Dispatched
  BY KernelAssumption DEF Init, PcDomain, Apart, Dispatched, Waits, EmptyQueue
<1>3. Present
  BY KernelAssumption DEF Init, Present, Waits, EmptyQueue
<1> QED
  BY <1>1, <1>2, <1>3 DEF Placed

\* In an execution with fixed tasks that fit their queues, every task is always in
\* the one place its program counter says.
LEMMA PlacedInvariant == ASSUME Closed PROVE Spec => [](Typed /\ Placed)
<1>1. Init => Typed /\ Placed
  BY InitTyped, InitPlaced
<1>2. Typed /\ Placed /\ [Next]_vars => (Typed /\ Placed)'
  <2> SUFFICES ASSUME Typed, Placed, [Next]_vars PROVE (Typed /\ Placed)'
    OBVIOUS
  <2>1. Typed'
    BY NextTyped
  <2>2. CASE UNCHANGED vars
    BY <2>1, <2>2
    DEF vars, kernelVars, cpuVars, timeVars, queueVars, taskVars, Typed, Placed,
        PcDomain, Apart, Present, Waits, Dispatched
  <2>3. CASE Next
    BY <2>3, <2>1, HandlersPlaced, TaskStepPlaced, RawStepPlaced DEF Next, Typed
  <2> QED
    BY <2>1, <2>2, <2>3
<1> QED
  BY <1>1, <1>2, PTL DEF Spec

\* A task in its place is in one queue, unless it is dormant, has ended or is on its way
\* to the sleeping queue.
LEMMA PlacedOnce == Placed => ExactlyOneQueue
<1> SUFFICES ASSUME Placed, NEW t \in Tasks
             PROVE  IF pc[t] \in {"dormant", "exited", "sleep_insert"}
                      THEN Places(t) = {}
                      ELSE \E q \in Places(t) : Places(t) = {q}
  BY DEF ExactlyOneQueue
<1> USE DEF Placed, Apart, Present, Waits, Places
<1>1. CASE t \in running.tasks
  <2>1. Places(t) = {"running"}
    BY <1>1
  <2> QED
    BY <1>1, <2>1
<1>2. CASE t \in sleeping.tasks
  <2>1. Places(t) = {"sleeping"}
    BY <1>2
  <2> QED
    BY <1>2, <2>1
<1>3. ASSUME NEW o \in Objects, t \in waiting[o].tasks
      PROVE  Places(t) = {o} /\ pc[t] \notin {"dormant", "exited", "sleep_insert"}
  BY <1>3
<1>4. CASE t \notin running.tasks /\ t \notin sleeping.tasks /\ ~Waits(t)
  BY <1>4
<1> QED
  BY <1>1, <1>2, <1>3, <1>4

\* A current task in its place is at the front of the running queue.
LEMMA PlacedFront == Placed => FrontRuns
BY KernelAssumption DEF Placed, Dispatched, FrontRuns, KernelTyped, KernelTypeOK

\* Every task that was added and has not ended is in exactly one queue, except
\* between the two queue operations of FPS_TaskSleepCallback, when it is in none:
\* until a SysTick falls inside one of these operations, after which this is promised
\* of no task.
THEOREM NoTaskDroppedOrDoubled == ASSUME Closed PROVE Spec => []ExactlyOneQueue
BY PlacedOnce, PlacedInvariant, PTL

\* Between interrupts the core runs the front of the running queue.
THEOREM FrontAlwaysRuns == ASSUME Closed PROVE Spec => []FrontRuns
BY PlacedFront, PlacedInvariant, PTL

-----------------------------------------------------------------------------
\* What the modules that extend Kernel need to know of the steps that are not theirs.

\* The labels of the steps every task has.
TaskLabels == KernelLabels \ {"wait_svc"}

\* A step of the kernel, or of a task outside the calls of an extension, changes only
\* program counters among these labels, and no argument.
LEMMA KernelStepPc ==
  ASSUME PcDomain, Handlers \/ \E t \in Tasks : TaskStep(t) \/ TaskEnd(t)
  PROVE  /\ PcDomain'
         /\ arg' = arg /\ check' = check
         /\ \A u \in Tasks : pc'[u] = pc[u] \/ {pc[u], pc'[u]} \subseteq TaskLabels
         /\ pc'[IdleTCB] = pc[IdleTCB] \/ pc'[IdleTCB] \in IdleLabels
<1> USE KernelAssumption
    DEF PcDomain, TaskLabels, KernelLabels, IdleLabels, kernelVars, taskVars, Executing,
        Goto, Calling
<1>1. CASE \E new \in Tasks : \E level \in Levels[new] : BootAddTask(new, level)
  BY <1>1 DEF BootAddTask
<1>2. CASE IdleSchedule
  BY <1>2 DEF IdleSchedule
<1>3. CASE SysTick_Handler \/ UpdateSleepingTasks \/ PendSV_Handler \/ ExtractNull
           \/ HeapTorn \/ OS_Start
  BY <1>3 DEF SysTick_Handler, UpdateSleepingTasks, PendSV_Handler, ExtractNull,
              HeapTorn, OS_Start
<1>4. CASE \E t, new \in Tasks : \E level \in Levels[new] : OS_AddTask(t, new, level)
  BY <1>4 DEF OS_AddTask
<1>5. CASE \E t \in Tasks : RunPastEnd(t)
  BY <1>5 DEF RunPastEnd
<1>6. CASE \E t \in Tasks : SleepCall(t) \/ SleepStamp(t) \/ SleepStrex(t)
  BY <1>6 DEF SleepCall, SleepStamp, SleepStrex
<1>7. CASE \E t \in Tasks : SleepRemove(t) \/ SleepInsert(t) \/ SleepYield(t) \/ TaskEnd(t)
  BY <1>7 DEF SleepRemove, SleepInsert, SleepYield, TaskEnd
<1> QED
  BY <1>1, <1>2, <1>3, <1>4, <1>5, <1>6, <1>7 DEF Handlers, TaskStep

\* A step of a task leaves it current, and is not taken from a label of an extension.
LEMMA KernelStepCurrent ==
  ASSUME NEW t \in Tasks, TaskStep(t) \/ TaskEnd(t)
  PROVE  mode = "thread" /\ currentTCB = t /\ currentTCB' = t /\ pc[t] \in TaskLabels
<1> USE DEF kernelVars, cpuVars, Executing, Calling, TaskLabels, KernelLabels
<1>1. CASE TaskStep(t)
  BY <1>1 DEF TaskStep, OS_AddTask, _svc_OS_AddTask, RunPastEnd, SleepCall,
              SleepStamp, SleepStrex, SleepRemove, SleepInsert, SleepYield, _svc_OS_yield
<1>2. CASE TaskEnd(t)
  BY <1>2 DEF TaskEnd, _svc_OS_task_exit
<1> QED
  BY <1>1, <1>2

\* A handler that leaves the exclusive monitor set leaves the current task alone, or
\* starts the idle task.
LEMMA HandlersMonitor ==
  ASSUME Handlers, exclusive'
  PROVE  exclusive /\ (currentTCB' = currentTCB \/ currentTCB' = IdleTCB)
BY DEF Handlers, SysTick_Handler, UpdateSleepingTasks, PendSV_Handler, ExtractNull,
       HeapTorn, OS_Start, IdleSchedule, BootAddTask, _svc_OS_AddTask

\* The steps of a task keep the kernel's state typed.
LEMMA KernelStepTyped ==
  ASSUME KernelTyped, NEW t \in Tasks, TaskStep(t) \/ TaskEnd(t) PROVE KernelTyped'
<1>1. CASE TaskStep(t)
  BY <1>1, TaskStepTyped
<1>2. CASE TaskEnd(t)
  BY <1>2, SvcTyped DEF TaskEnd, Goto, KernelTyped, KernelTypeOK
<1> QED
  BY <1>1, <1>2

\* The steps that are not an extension's leave the waiting queues alone.
LEMMA KernelStepWaiting ==
  ASSUME Handlers \/ \E t \in Tasks : TaskStep(t) \/ TaskEnd(t)
  PROVE  waiting' = waiting /\ checkCode' = checkCode
BY DEF Handlers, SysTick_Handler, UpdateSleepingTasks, PendSV_Handler, ExtractNull,
       HeapTorn, OS_Start, IdleSchedule, BootAddTask, _svc_OS_AddTask, TaskStep, OS_AddTask,
       RunPastEnd, SleepCall, SleepStamp, SleepStrex, SleepRemove, SleepInsert,
       SleepYield, _svc_OS_yield, TaskEnd, _svc_OS_task_exit, queueVars, kernelVars

\* A task that runs, and not in OS_Sleep, does not wait.
LEMMA CurrentNotWaiting ==
  ASSUME Placed, NEW t \in Tasks, mode = "thread", currentTCB = t, pc[t] \notin SleepWindow,
         NEW o \in Objects
  PROVE  t \notin waiting[o].tasks
BY CurrentInRunning DEF Placed, Apart, Waits

\* A check code that was read is not from the future.
CodesRead == \A t \in Tasks : check[t] <= checkCode

-----------------------------------------------------------------------------
\* The highest-priority ready task runs, as long as the heap keeps its order.

\* Inserting a task in a queue whose front is the lowest leaves the lowest in front.
LEMMA InsertedSorted ==
  ASSUME HeapOrdered, NEW q \in Queue, WellFormed(q), NEW t \in Tasks,
         NEW key \in [Tasks -> Nat], Sorted(q, key), NEW r \in Inserted(q, t, key)
  PROVE  Sorted(r, key)
<1>1. CASE r = q
  BY <1>1
<1>2. CASE r # q
  <2>1. PICK f \in FrontsWith(q, t, key) :
             r = [tasks |-> q.tasks \cup {t}, front |-> f]
    BY <1>2 DEF Inserted
  <2>2. r.tasks = q.tasks \cup {t} /\ r.front = f /\ q.tasks \subseteq Tasks
    BY <2>1 DEF Queue
  <2>3. CASE q.tasks = {}
    <3>1. f = t
      BY <2>3 DEF FrontsWith
    <3> QED
      BY <2>2, <2>3, <3>1 DEF Sorted
  <2>4. CASE q.tasks # {}
    <3>1. q.front \in q.tasks
      BY <2>4 DEF WellFormed
    <3>2. f = IF key[t] >= key[q.front] THEN q.front ELSE t
      BY <2>4 DEF FrontsWith
    <3>3. \A u \in q.tasks : key[q.front] <= key[u]
      BY DEF Sorted
    <3>4. \A u \in Tasks : key[u] \in Nat
      OBVIOUS
    <3> QED
      BY <2>2, <3>1, <3>2, <3>3, <3>4 DEF Sorted
  <2> QED
    BY <2>3, <2>4
<1> QED
  BY <1>1, <1>2

\* Removing a task from a queue leaves the lowest in front.
LEMMA RemovedSorted ==
  ASSUME HeapOrdered, NEW q \in Queue, NEW t, NEW key, Sorted(q, key),
         NEW r \in Removed(q, t, key)
  PROVE  Sorted(r, key)
<1>1. CASE t \notin q.tasks
  BY <1>1 DEF Removed
<1>2. CASE t \in q.tasks
  <2>1. PICK f \in IF t = q.front THEN Fronts(q.tasks \ {t}, key) ELSE {q.front} :
             r = [tasks |-> q.tasks \ {t}, front |-> f]
    BY <1>2 DEF Removed
  <2>2. r.tasks = q.tasks \ {t} /\ r.front = f
    BY <2>1
  <2> QED
    BY <2>1, <2>2 DEF Fronts, Sorted
<1> QED
  BY <1>1, <1>2

RunningSorted == Sorted(running, priority)

\* What a call can do to the queues: nothing, or what OS_Wait or OS_Notify does.
CallTouches ==
  \/ UNCHANGED <<running, priority>>
  \/ \E o \in Objects : _svc_OS_Notify(o) \/ \E code : _svc_OS_Wait(o, code)

\* A task enters and leaves the running queue by its priority.
LEMMA CallSorted ==
  ASSUME HeapOrdered, KernelTyped, RunningSorted, CallTouches
  PROVE  RunningSorted'
<1> USE DEF RunningSorted, KernelTyped, KernelTypeOK, WellFormedQueues
<1>1. CASE UNCHANGED <<running, priority>>
  BY <1>1 DEF Sorted
<1>2. ASSUME NEW t \in Tasks, running' \in Inserted(running, t, priority),
             UNCHANGED priority
      PROVE  RunningSorted'
  BY <1>2, InsertedSorted
<1>3. ASSUME NEW t, running' \in Removed(running, t, priority), UNCHANGED priority
      PROVE  RunningSorted'
  BY <1>3, RemovedSorted
<1>4. ASSUME NEW o \in Objects, _svc_OS_Notify(o) PROVE RunningSorted'
  <2>1. CASE waiting[o].tasks = {}
    BY <1>1, <1>4, <2>1 DEF _svc_OS_Notify, FPS_TaskNotifyCallback
  <2>2. CASE waiting[o].tasks # {}
    <3>1. waiting[o].front \in Tasks
      BY <2>2, FrontIsTask
    <3> QED
      BY <1>2, <1>4, <2>2, <3>1 DEF _svc_OS_Notify, FPS_TaskNotifyCallback
  <2> QED
    BY <2>1, <2>2
<1>5. ASSUME NEW o, NEW code, _svc_OS_Wait(o, code) PROVE RunningSorted'
  BY <1>1, <1>3, <1>5 DEF _svc_OS_Wait, FPS_TaskWaitCallback
<1> QED
  BY <1>1, <1>4, <1>5 DEF CallTouches

\* Priorities are set before a task enters the running queue and never after.
LEMMA KernelStepSorted ==
  ASSUME HeapOrdered, Closed, Placed, RunningSorted,
         Handlers \/ \E t \in Tasks : TaskStep(t) \/ TaskEnd(t)
  PROVE  RunningSorted'
<1> USE DEF RunningSorted, KernelTyped, KernelTypeOK, WellFormedQueues,
            kernelVars, cpuVars, timeVars, queueVars, taskVars
<1>0. KernelTyped
  BY DEF Placed
<1>1. ASSUME UNCHANGED <<running, priority>> PROVE RunningSorted'
  BY <1>1 DEF Sorted
<1>2. ASSUME NEW t \in Tasks, running' \in Inserted(running, t, priority),
             UNCHANGED priority
      PROVE  RunningSorted'
  BY <1>0, <1>2, InsertedSorted
<1>3. ASSUME NEW t, running' \in Removed(running, t, priority), UNCHANGED priority
      PROVE  RunningSorted'
  BY <1>0, <1>3, RemovedSorted
<1>5. CASE SysTick_Handler \/ PendSV_Handler \/ ExtractNull \/ HeapTorn \/ OS_Start
           \/ IdleSchedule
  BY <1>1, <1>5 DEF SysTick_Handler, PendSV_Handler, FPS_SchedulerCallback, ExtractNull,
                    HeapTorn, OS_Start, IdleSchedule
<1>6. CASE UpdateSleepingTasks
  <2>1. sleeping.front \in Tasks
    BY <1>0, <1>6, FrontIsTask DEF UpdateSleepingTasks, Due
  <2> QED
    BY <1>2, <1>6, <2>1 DEF UpdateSleepingTasks
<1>7. ASSUME NEW new \in Tasks, NEW level \in Levels[new], BootAddTask(new, level)
      PROVE  RunningSorted'
  <2>1. new \notin running.tasks
    BY <1>7 DEF BootAddTask, Placed, Present
  <2>2. /\ priority' = [priority EXCEPT ![new] = level]
        /\ running' \in Inserted(running, new, priority')
        /\ level \in Nat
    BY <1>7, KernelAssumption DEF BootAddTask, _svc_OS_AddTask, FPS_AddTaskCallback
  <2>3. priority' \in [Tasks -> Nat]
    BY <1>0, <2>2
  <2>4. Sorted(running, priority')
    <3>1. \A t \in running.tasks : t \in Tasks /\ priority'[t] = priority[t]
      BY <1>0, <2>1, <2>2 DEF Queue
    <3>2. running.tasks # {} => running.front \in running.tasks
      BY <1>0 DEF WellFormed
    <3> QED
      BY <3>1, <3>2 DEF Sorted
  <2> QED
    BY <1>0, <2>2, <2>3, <2>4, InsertedSorted
<1>8. ASSUME NEW t \in Tasks, TaskStep(t) PROVE RunningSorted'
  <2>1. ~\E new \in Tasks : \E level \in Levels[new] : OS_AddTask(t, new, level)
    BY DEF OS_AddTask, Closed
  <2>2. CASE RunPastEnd(t) \/ SleepCall(t) \/ SleepStamp(t) \/ SleepStrex(t)
             \/ SleepInsert(t) \/ SleepYield(t)
    BY <1>1, <2>2 DEF RunPastEnd, SleepCall, SleepStamp, SleepStrex, SleepInsert,
                      SleepYield, _svc_OS_yield
  <2>3. CASE SleepRemove(t)
    BY <1>3, <2>3 DEF SleepRemove
  <2> QED
    BY <1>8, <2>1, <2>2, <2>3 DEF TaskStep
<1>9. ASSUME NEW t \in Tasks, TaskEnd(t) PROVE RunningSorted'
  BY <1>3, <1>9 DEF TaskEnd, _svc_OS_task_exit, FPS_TaskExitCallback
<1> QED
  BY <1>5, <1>6, <1>7, <1>8, <1>9 DEF Handlers

\* So the running queue stays sorted.
LEMMA NextSorted ==
  ASSUME HeapOrdered, Closed, Typed, Placed, RunningSorted, [Next]_vars
  PROVE  RunningSorted'
<1> USE DEF Typed, kernelVars, queueVars, taskVars
<1>1. CASE Handlers \/ \E t \in Tasks : TaskStep(t) \/ TaskEnd(t)
  BY <1>1, KernelStepSorted
<1>2. CASE UNCHANGED vars
  BY <1>2, CallSorted DEF vars, CallTouches
<1>3. ASSUME NEW t \in Tasks,
             \/ OS_Yield(t) \/ WaitSvc(t)
             \/ \E o \in Objects : WaitCall(t, o) \/ OS_Notify(t, o)
      PROVE  RunningSorted'
  <2>1. CallTouches
    BY <1>3 DEF OS_Yield, _svc_OS_yield, WaitCall, OS_Notify, WaitSvc, Executing,
                WaitNamesObject, CallTouches
  <2> QED
    BY <2>1, CallSorted
<1> QED
  BY <1>1, <1>2, <1>3 DEF Next, RawStep

\* The front of a sorted queue outranks the others, and is what runs.
LEMMA SortedRuns == Placed /\ RunningSorted => HighestRuns
BY DEF Placed, Dispatched, HighestRuns, RunningSorted, Sorted, KernelTyped, KernelTypeOK,
       Queue

\* No ready task outranks the one that runs, until a SysTick falls inside one of the heap
\* operations of OS_Sleep.
THEOREM HighestPriorityRuns ==
  ASSUME Closed, HeapOrdered PROVE Spec => []HighestRuns
<1>1. Init => RunningSorted
  BY DEF Init, RunningSorted, Sorted, EmptyQueue
<1>2. Typed /\ Placed /\ RunningSorted /\ [Next]_vars => RunningSorted'
  BY NextSorted
<1> QED
  BY <1>1, <1>2, SortedRuns, PlacedInvariant, PTL DEF Spec

-----------------------------------------------------------------------------
\* OS_Sleep keeps its caller asleep for as long as it asked, if no task sleeps
\* across the wrap of _ticks.

\* The SysTicks a task is still owed are those until ticks has passed its due tick.
Timed ==
  /\ ticks < TickMod
  /\ \A t \in Tasks :
       owed[t] > 0 => owed[t] + ticks = data[t] + 1 /\ data[t] < TickMod - 1

\* Before the wrap the tick counter is incremented, and at it no sleep is owed.
LEMMA TickIncrements ==
  ASSUME NEW n \in Nat, n < TickMod
  PROVE  /\ (n + 1) % TickMod < TickMod
         /\ n + 1 < TickMod => (n + 1) % TickMod = n + 1
<1>1. TickMod \in Nat \ {0}
  BY KernelAssumption
<1> QED
  BY <1>1

\* Only OS_Sleep sets a due tick, and only SysTick and UpdateSleepingTasks move time
\* and due ticks on.
LEMMA NextTimed ==
  ASSUME ~SleepAcrossWrap, Typed, Timed, [Next]_vars PROVE Timed'
<1> USE DEF Typed, KernelTyped, KernelTypeOK, kernelVars, timeVars
<1>0. TickMod \in Nat \ {0} /\ Durations \subseteq Nat
  BY KernelAssumption
<1>1. ASSUME UNCHANGED timeVars PROVE Timed'
  BY <1>1 DEF Timed
<1>2. CASE SysTick_Handler
  <2>1. /\ ticks' = (ticks + 1) % TickMod /\ data' = data
        /\ owed' = [t \in Tasks |-> IF owed[t] = 0 THEN 0 ELSE owed[t] - 1]
    BY <1>2 DEF SysTick_Handler
  <2>2. ticks' < TickMod
    BY <2>1, TickIncrements DEF Timed
  <2>3. ASSUME NEW t \in Tasks, owed'[t] > 0
        PROVE  owed'[t] + ticks' = data'[t] + 1 /\ data'[t] < TickMod - 1
    <3>1. owed[t] \in Nat /\ data[t] \in Nat
      OBVIOUS
    <3>2. owed[t] > 1 /\ owed'[t] = owed[t] - 1
      BY <2>1, <2>3, <3>1
    <3>3. owed[t] + ticks = data[t] + 1 /\ data[t] < TickMod - 1
      BY <3>1, <3>2 DEF Timed
    <3>4. ticks + 1 < TickMod
      BY <1>0, <3>1, <3>2, <3>3
    <3>5. ticks' = ticks + 1
      BY <2>1, <3>4, TickIncrements DEF Timed
    <3> QED
      BY <2>1, <3>1, <3>2, <3>3, <3>5
  <2> QED
    BY <2>2, <2>3 DEF Timed
<1>3. CASE UpdateSleepingTasks
  <2> DEFINE t == sleeping.front
  <2>1. t \in Tasks /\ ticks > data[t]
    BY <1>3, FrontIsTask DEF UpdateSleepingTasks, Due, WellFormedQueues
  <2>2. owed[t] = 0
    <3>1. owed[t] \in Nat /\ data[t] \in Nat
      BY <2>1
    <3> QED
      BY <2>1, <3>1 DEF Timed
  <2>3. data' = [data EXCEPT ![t] = 0] /\ UNCHANGED <<ticks, owed>>
    BY <1>3 DEF UpdateSleepingTasks
  <2> QED
    BY <2>1, <2>2, <2>3 DEF Timed
<1>4. CASE Handlers /\ ~SysTick_Handler /\ ~UpdateSleepingTasks
  BY <1>1, <1>4 DEF Handlers, PendSV_Handler, ExtractNull, HeapTorn, OS_Start, IdleSchedule,
                    BootAddTask, _svc_OS_AddTask
<1>5. ASSUME NEW t \in Tasks, SleepStamp(t) PROVE Timed'
  <2>1. PICK time \in Durations :
             /\ SleepAcrossWrap \/ ticks + time < TickMod - 1
             /\ data' = [data EXCEPT ![t] = (ticks + time) % TickMod]
             /\ owed' = [owed EXCEPT ![t] = time + 1]
    BY <1>5 DEF SleepStamp
  <2>2. time \in Nat /\ ticks + time < TickMod - 1
    BY <1>0, <2>1
  <2>3. (ticks + time) % TickMod = ticks + time
    BY <1>0, <2>2
  <2>4. ticks' = ticks
    BY <1>5 DEF SleepStamp
  <2> QED
    BY <2>1, <2>2, <2>3, <2>4 DEF Timed
<1>6. ASSUME NEW t \in Tasks, TaskStep(t) \/ RawStep(t), ~SleepStamp(t) PROVE Timed'
  BY <1>1, <1>6
  DEF TaskStep, OS_AddTask, _svc_OS_AddTask, RunPastEnd, SleepCall, SleepStrex,
      SleepRemove, SleepInsert, SleepYield, _svc_OS_yield, RawStep, TaskEnd,
      _svc_OS_task_exit, OS_Yield, WaitCall, OS_Notify, _svc_OS_Notify, WaitSvc,
      _svc_OS_Wait
<1>7. CASE UNCHANGED vars
  BY <1>1, <1>7 DEF vars
<1> QED
  BY <1>2, <1>3, <1>4, <1>5, <1>6, <1>7 DEF Next

\* Only UpdateSleepingTasks takes a task out of the sleeping queue, and it takes the
\* front.
LEMMA SleepersLeave ==
  ASSUME Typed, [Next]_vars, NEW t \in sleeping.tasks, t \notin sleeping'.tasks
  PROVE  Due /\ t = sleeping.front
<1> USE DEF Typed, KernelTyped, KernelTypeOK, WellFormedQueues
<1>1. sleeping' # sleeping
  OBVIOUS
<1>2. CASE UpdateSleepingTasks
  <2>1. sleeping'.tasks = sleeping.tasks \ {sleeping.front}
    BY <1>2, RemovedQueue DEF UpdateSleepingTasks
  <2> QED
    BY <1>2, <2>1 DEF UpdateSleepingTasks
<1>3. ASSUME NEW u \in Tasks, SleepInsert(u) PROVE FALSE
  BY <1>3, InsertedQueue DEF SleepInsert
<1>4. Handlers => UpdateSleepingTasks
  BY <1>1 DEF Handlers, SysTick_Handler, PendSV_Handler, ExtractNull, HeapTorn, OS_Start,
              IdleSchedule, BootAddTask, _svc_OS_AddTask, queueVars
<1>5. ASSUME NEW u \in Tasks, TaskStep(u) \/ RawStep(u) PROVE SleepInsert(u)
  BY <1>1, <1>5
  DEF TaskStep, OS_AddTask, _svc_OS_AddTask, RunPastEnd, SleepCall, SleepStamp,
      SleepStrex, SleepRemove, SleepYield, _svc_OS_yield, RawStep, TaskEnd,
      _svc_OS_task_exit, OS_Yield, WaitCall, OS_Notify, _svc_OS_Notify, WaitSvc,
      _svc_OS_Wait, queueVars, kernelVars
<1>6. ~UNCHANGED vars
  BY <1>1 DEF vars, kernelVars, queueVars
<1> QED
  BY <1>2, <1>3, <1>4, <1>5, <1>6 DEF Next

\* A task leaves the sleeping queue only after the n + 1 SysTicks of its OS_Sleep(n),
\* until a SysTick falls inside one of the heap operations of OS_Sleep.
THEOREM SleepLastsItsTime == ASSUME ~SleepAcrossWrap PROVE Spec => SleepsItsTime
<1>1. Init => Timed
  BY KernelAssumption DEF Init, Timed
<1>2. Typed /\ Timed /\ [Next]_vars => (Typed /\ Timed)'
  BY NextTyped, NextTimed
<1>3. Typed /\ Timed /\ [Next]_vars =>
        \A t \in Tasks : t \in sleeping.tasks /\ t \notin sleeping'.tasks => owed[t] = 0
  <2> SUFFICES ASSUME Typed, Timed, [Next]_vars, NEW t \in Tasks,
                      t \in sleeping.tasks, t \notin sleeping'.tasks
               PROVE  owed[t] = 0
    OBVIOUS
  <2>1. ticks > data[t]
    BY SleepersLeave DEF Due
  <2>2. owed[t] \in Nat /\ data[t] \in Nat /\ ticks \in Nat
    BY DEF Typed, KernelTyped, KernelTypeOK
  <2> QED
    BY <2>1, <2>2 DEF Timed
<1> QED
  BY <1>1, <1>2, <1>3, InitTyped, PTL DEF Spec, SleepsItsTime

-----------------------------------------------------------------------------
\* No task is left asleep past its tick, if the heap keeps its order.

SleepingSorted == Sorted(sleeping, data)

\* A task sets its due tick before it enters the sleeping queue, and the one that is
\* reset has left it.
LEMMA NextSleepingSorted ==
  ASSUME HeapOrdered, Closed, Typed, Placed, SleepingSorted, [Next]_vars
  PROVE  SleepingSorted'
<1> USE DEF SleepingSorted, Typed, KernelTyped, KernelTypeOK, WellFormedQueues,
            kernelVars, timeVars, queueVars
<1>1. ASSUME NEW t, t \notin sleeping.tasks, NEW n, data' = [data EXCEPT ![t] = n],
             sleeping' = sleeping
      PROVE  SleepingSorted'
  <2>1. \A u \in sleeping.tasks : data'[u] = data[u]
    BY <1>1 DEF Queue
  <2>2. sleeping.tasks # {} => sleeping.front \in sleeping.tasks
    BY DEF WellFormed
  <2> QED
    BY <1>1, <2>1, <2>2 DEF Sorted
<1>2. ASSUME UNCHANGED <<sleeping, data>> PROVE SleepingSorted'
  BY <1>2 DEF Sorted
<1>3. CASE UpdateSleepingTasks
  <2> DEFINE t == sleeping.front
  <2>1. sleeping' \in Removed(sleeping, t, data) /\ data' = [data EXCEPT ![t] = 0]
    BY <1>3 DEF UpdateSleepingTasks
  <2>2. /\ Sorted(sleeping', data) /\ WellFormed(sleeping') /\ sleeping' \in Queue
        /\ t \notin sleeping'.tasks
    BY <2>1, RemovedSorted, RemovedQueue
  <2>3. \A u \in sleeping'.tasks : data'[u] = data[u]
    BY <2>1, <2>2 DEF Queue
  <2>4. sleeping'.tasks # {} => sleeping'.front \in sleeping'.tasks
    BY <2>2 DEF WellFormed
  <2> QED
    BY <2>2, <2>3, <2>4 DEF Sorted
<1>4. ASSUME NEW t \in Tasks, SleepStamp(t) PROVE SleepingSorted'
  <2>1. t \in running.tasks
    BY <1>4, CurrentInRunning DEF SleepStamp, Executing, SleepWindow
  <2>2. t \notin sleeping.tasks
    BY <2>1 DEF Placed, Apart
  <2> QED
    BY <1>1, <1>4, <2>2 DEF SleepStamp
<1>5. ASSUME NEW t \in Tasks, SleepInsert(t) PROVE SleepingSorted'
  BY <1>5, InsertedSorted DEF SleepInsert
<1>6. CASE Handlers /\ ~UpdateSleepingTasks
  BY <1>2, <1>6 DEF Handlers, SysTick_Handler, PendSV_Handler, ExtractNull, HeapTorn,
                    OS_Start, IdleSchedule, BootAddTask, _svc_OS_AddTask
<1>7. ASSUME NEW t \in Tasks, TaskStep(t) \/ RawStep(t), ~SleepStamp(t), ~SleepInsert(t)
      PROVE  SleepingSorted'
  BY <1>2, <1>7
  DEF TaskStep, OS_AddTask, _svc_OS_AddTask, RunPastEnd, SleepCall, SleepStrex,
      SleepRemove, SleepYield, _svc_OS_yield, RawStep, TaskEnd, _svc_OS_task_exit,
      OS_Yield, WaitCall, OS_Notify, _svc_OS_Notify, WaitSvc, _svc_OS_Wait
<1>8. CASE UNCHANGED vars
  BY <1>2, <1>8 DEF vars
<1> QED
  BY <1>3, <1>4, <1>5, <1>6, <1>7, <1>8 DEF Next

\* Nothing sleeps before OS_Start.
NobodySleepsInBoot == mode = "boot" => sleeping.tasks = {}

\* PendSV wakes all tasks that are due; until the next SysTick only the caller of an
\* OS_Sleep that is over already can be overdue.
LEMMA NextNoOverdueSleeper ==
  ASSUME Closed, Typed, Placed, SleepingSorted, NobodySleepsInBoot, NoOverdueSleeper,
         [Next]_vars
  PROVE  NobodySleepsInBoot' /\ NoOverdueSleeper'
<1> USE DEF Typed, KernelTyped, KernelTypeOK, WellFormedQueues, PcTyped, NobodySleepsInBoot,
            NoOverdueSleeper, kernelVars, cpuVars, timeVars, queueVars, taskVars, Goto,
            Executing
<1>1. ASSUME NEW t \in sleeping.tasks
      PROVE  /\ t \in Tasks
             /\ mode = "thread" /\ t = currentTCB => pc[t] = "sleep_yield"
  <2>1. t \in Tasks
    BY DEF Queue
  <2>2. t \notin running.tasks /\ pc[t] # "sleep_insert"
    BY <2>1 DEF Placed, Apart, Present
  <2> QED
    BY <2>1, <2>2, CurrentInRunning DEF SleepWindow
<1>2. CASE PendSV_Handler
  <2>1. sleeping.tasks # {} => ticks <= data[sleeping.front] /\ sleeping.front \in sleeping.tasks
    <3>1. sleeping.tasks # {} => ~(ticks > data[sleeping.front])
      BY <1>2 DEF PendSV_Handler, Due
    <3>2. sleeping.tasks # {} => sleeping.front \in sleeping.tasks /\ sleeping.front \in Tasks
      BY <1>1 DEF WellFormed
    <3> QED
      BY <3>1, <3>2
  <2>2. \A t \in sleeping.tasks : ticks <= data[t]
    BY <1>1, <2>1 DEF SleepingSorted, Sorted
  <2>3. UNCHANGED <<ticks, data, sleeping>> /\ mode' = "thread"
    BY <1>2 DEF PendSV_Handler
  <2> QED
    BY <2>2, <2>3
<1>3. CASE Handlers /\ ~PendSV_Handler
  BY <1>3, <1>1
  DEF Handlers, SysTick_Handler, UpdateSleepingTasks, ExtractNull, HeapTorn, OS_Start,
      IdleSchedule, BootAddTask, _svc_OS_AddTask
<1>4. ASSUME NEW t \in Tasks, SleepStamp(t) PROVE NobodySleepsInBoot' /\ NoOverdueSleeper'
  <2>1. t \notin sleeping.tasks
    BY <1>1, <1>4 DEF SleepStamp
  <2>2. \A u \in sleeping.tasks : data'[u] = data[u] /\ pc'[u] = pc[u]
    BY <1>1, <1>4, <2>1 DEF SleepStamp
  <2> QED
    BY <1>4, <2>2 DEF SleepStamp
<1>5. ASSUME NEW t \in Tasks, SleepInsert(t) PROVE NobodySleepsInBoot' /\ NoOverdueSleeper'
  <2>1. sleeping'.tasks \subseteq sleeping.tasks \cup {t}
    BY <1>5, InsertedQueue DEF SleepInsert
  <2>2. t \notin sleeping.tasks
    BY <1>1, <1>5 DEF SleepInsert
  <2>3. \A u \in sleeping.tasks : ticks <= data[u]
    BY <1>5, <2>2 DEF SleepInsert
  <2> QED
    BY <1>5, <2>1, <2>3 DEF SleepInsert
<1>6. ASSUME NEW t \in Tasks, TaskStep(t) \/ RawStep(t), ~SleepStamp(t), ~SleepInsert(t)
      PROVE  NobodySleepsInBoot' /\ NoOverdueSleeper'
  <2>1. /\ UNCHANGED <<ticks, data, sleeping, currentTCB>>
        /\ mode = "thread" /\ mode' # "boot" /\ currentTCB = t
    BY <1>6
    DEF TaskStep, OS_AddTask, _svc_OS_AddTask, RunPastEnd, SleepCall, SleepStrex,
        SleepRemove, SleepYield, _svc_OS_yield, RawStep, TaskEnd, _svc_OS_task_exit,
        OS_Yield, WaitCall, OS_Notify, _svc_OS_Notify, WaitSvc, _svc_OS_Wait, Calling,
        FPS_TaskWaitCallback, FPS_TaskNotifyCallback
  <2>2. CASE t \in sleeping.tasks
    <3>1. pc[t] = "sleep_yield"
      BY <1>1, <2>1, <2>2
    <3>2. SleepYield(t)
      BY <1>6, <3>1
      DEF TaskStep, OS_AddTask, RunPastEnd, SleepCall, SleepStrex, SleepRemove, RawStep,
          TaskEnd, OS_Yield, WaitCall, OS_Notify, WaitSvc, Calling
    <3> QED
      BY <3>2 DEF SleepYield, _svc_OS_yield
  <2>3. CASE t \notin sleeping.tasks
    BY <2>1, <2>3
  <2> QED
    BY <2>2, <2>3
<1>7. CASE UNCHANGED vars
  BY <1>7, <1>1 DEF vars
<1> QED
  BY <1>2, <1>3, <1>4, <1>5, <1>6, <1>7 DEF Next

\* In thread mode a sleeper is overdue only if it has just put itself to sleep, until a
\* SysTick falls inside one of the heap operations of OS_Sleep.
THEOREM SleepersWokenInTime ==
  ASSUME Closed, HeapOrdered PROVE Spec => []NoOverdueSleeper
<1> DEFINE Inv == SleepingSorted /\ NobodySleepsInBoot /\ NoOverdueSleeper
<1>1. Init => Inv
  BY DEF Init, SleepingSorted, Sorted, EmptyQueue, NobodySleepsInBoot, NoOverdueSleeper
<1>2. Typed /\ Placed /\ Inv /\ [Next]_vars => Inv'
  BY NextSleepingSorted, NextNoOverdueSleeper
<1> QED
  BY <1>1, <1>2, PlacedInvariant, PTL DEF Spec

=============================================================================
