------------------------------- MODULE Kernel -------------------------------
(***************************************************************************)
(* The DocetOS kernel with its fixed-priority scheduler: OS/os.c,          *)
(* OS/os_asm.s and OS/fixedPriorityScheduler.c.                            *)
(*                                                                         *)
(* One Cortex-M4 core runs one task at a time in thread mode.  SVC, PendSV *)
(* and SysTick all have priority 0, so a handler runs to completion, and a *)
(* PendSV it pends is taken before any thread instruction.  Thread code    *)
(* can be interrupted between any two steps below.  Two of them, the heap  *)
(* operations of OS_Sleep, are long: SleepHeap takes them apart, and a     *)
(* SysTick inside one ends the behaviours of this module (HeapTorn).       *)
(*                                                                         *)
(* The module is both a specification (tasks that sleep, wait, notify,     *)
(* yield, add tasks and end) and the base the synchronisation objects      *)
(* extend: their steps use the SVC operators of this module.               *)
(***************************************************************************)
EXTENDS TcbQueue

CONSTANTS
  IdleTCB,          \* OS_idleTCB
  Objects,          \* the owners of a waiting queue
  Levels,           \* the priority levels every task may be added with
  TickMod,          \* 2^32: the range of _ticks and of TCB.data
  NullData,         \* the word a null TCB pointer yields for ->data
  Durations,        \* the arguments OS_Sleep is called with
  SleepAcrossWrap,  \* FALSE: no task sleeps across the wrap of _ticks
  TickInHandoff,    \* FALSE: no SysTick falls between the two heap operations
                    \*   of FPS_TaskSleepCallback
  TickInHeap,       \* FALSE: no SysTick falls inside one of them
  Spawning,         \* TRUE: running tasks call OS_AddTask too
  UIntMax,          \* 2^32 - 1: the greatest value of a uint32_t counter
  MaxCalls          \* bound: API calls the tasks make in all

ASSUME KernelAssumption ==
  /\ IdleTCB \notin Tasks /\ IdleTCB # Nil
  /\ Levels \in [Tasks -> SUBSET Nat]
  /\ TickMod \in Nat \ {0}
  /\ NullData \in Nat
  /\ Durations \subseteq Nat
  /\ SleepAcrossWrap \in BOOLEAN
  /\ TickInHandoff \in BOOLEAN
  /\ TickInHeap \in BOOLEAN
  /\ Spawning \in BOOLEAN
  /\ UIntMax \in Nat \ {0}
  /\ MaxCalls \in Nat

VARIABLES
  currentTCB,  \* _currentTCB: a task, the idle TCB, or Nil before OS_Start
  mode,        \* "boot": main(); "thread": thread mode; "pendsv": PendSV is
               \*   pending; "waking": inside UpdateSleepingTasks; "fault";
               \*   "torn": a handler found a heap half updated
  exclusive,   \* the core's exclusive monitor, set by LDREX
  ticks,       \* _ticks
  checkCode,   \* _checkCode
  priority,    \* TCB.priority of every task
  data,        \* TCB.data: the tick a sleeping task is due at
  running,     \* _runningTasksQueue
  sleeping,    \* _sleepingTasksQueue
  waiting,     \* the _waitingTaskQueue of every object
  pc,          \* the next step of every task and of the idle task
  arg,         \* the object the call in progress is about
  check,       \* the check code the call in progress has read
  calls,       \* API calls the tasks may still make
  owed         \* history: SysTicks until a sleeper has slept in full

cpuVars    == <<currentTCB, mode, exclusive>>
timeVars   == <<ticks, data, owed>>
queueVars  == <<running, sleeping, waiting>>
taskVars   == <<pc, arg, check, calls>>
kernelVars == <<cpuVars, timeVars, queueVars, checkCode, priority>>
vars       == <<kernelVars, taskVars>>

Modes == {"boot", "thread", "pendsv", "waking", "fault", "torn"}

KernelLabels ==
  {"dormant", "user", "exited", "wait_svc", "sleep_stamp", "sleep_strex",
   "sleep_remove", "sleep_insert", "sleep_yield"}

IdleLabels == {"idle_schedule", "idle_loop"}

-----------------------------------------------------------------------------
\* Handler mode.

\* Mutant: SysTick counts the tick but does not pend PendSV.
SysTickWithoutPendSV ==
  /\ mode = "thread"
  /\ ticks' = (ticks + 1) % TickMod
  /\ owed' = [t \in Tasks |-> IF owed[t] = 0 THEN 0 ELSE owed[t] - 1]
  /\ exclusive' = FALSE
  /\ UNCHANGED <<currentTCB, mode, data, queueVars, checkCode, priority, taskVars>>

\* SysTick interrupts thread code, counts the tick and pends PendSV.  Taking
\* any exception opens the exclusive monitor.
SysTick_Handler ==
  /\ mode = "thread"
  /\ TickInHandoff \/ pc[currentTCB] # "sleep_insert"
  /\ ticks' = (ticks + 1) % TickMod
  /\ owed' = [t \in Tasks |-> IF owed[t] = 0 THEN 0 ELSE owed[t] - 1]
  /\ mode' = "pendsv"
  /\ exclusive' = FALSE
  /\ UNCHANGED <<currentTCB, data, queueVars, checkCode, priority, taskVars>>

\* Mutant: once one sleeper is due, the loop wakes the others as well.
DueDrains ==
  sleeping.tasks # {} /\ (mode = "waking" \/ ticks > data[sleeping.front])

\* The sleeping queue's front is due: ticks > peek()->data.
Due == sleeping.tasks # {} /\ ticks > data[sleeping.front]

\* One iteration of the loop in UpdateSleepingTasks, which the scheduler
\* callback enters only when the sleeping queue is not empty.
UpdateSleepingTasks ==
  /\ mode \in {"pendsv", "waking"}
  /\ Due
  /\ LET t == sleeping.front IN
       /\ sleeping' \in Removed(sleeping, t, data)
       /\ data' = [data EXCEPT ![t] = 0]
       /\ running' \in Inserted(running, t, priority)
  /\ mode' = "waking"
  /\ UNCHANGED <<currentTCB, exclusive, ticks, owed, waiting, checkCode,
                 priority, taskVars>>

\* The loop has emptied the sleeping queue and now compares ticks with the
\* data field of a null TCB.
PeeksNull == mode = "waking" /\ sleeping.tasks = {}

\* Mutant: a task that is still ready keeps the core.
KeepsCurrent ==
  IF currentTCB \in running.tasks THEN currentTCB
  ELSE IF running.front = Nil THEN IdleTCB ELSE running.front

\* Mutant: the callback returns the front of an empty queue.
FrontOrNull == running.front

\* The task the scheduler callback returns once the sleepers are up to date.
FPS_SchedulerCallback == IF running.front = Nil THEN IdleTCB ELSE running.front

\* Mutant: one sleeper at most is woken per PendSV, an if in place of the loop.
PendSVWakesOne ==
  /\ mode \in {"pendsv", "waking"}
  /\ mode = "pendsv" => ~Due
  /\ currentTCB' = FPS_SchedulerCallback
  /\ mode' = "thread"
  /\ exclusive' = FALSE
  /\ UNCHANGED <<timeVars, queueVars, checkCode, priority, taskVars>>

\* PendSV_Handler once no sleeper is due: the scheduler callback's choice, then
\* _task_switch, which leaves the monitor open.
PendSV_Handler ==
  /\ mode \in {"pendsv", "waking"}
  /\ ~Due
  /\ PeeksNull => ticks <= NullData
  /\ currentTCB' = FPS_SchedulerCallback
  /\ mode' = "thread"
  /\ exclusive' = FALSE
  /\ UNCHANGED <<timeVars, queueVars, checkCode, priority, taskVars>>

\* The null TCB looks due: the loop extracts 0 from the empty queue and stores
\* through it, and HardFault_Handler stops the core.
ExtractNull ==
  /\ PeeksNull
  /\ ticks > NullData
  /\ mode' = "fault"
  /\ UNCHANGED <<currentTCB, exclusive, timeVars, queueVars, checkCode,
                 priority, taskVars>>

\* SysTick and PendSV come between two accesses of the heap operation that the
\* current task performs in thread mode, and use the array as they find it.  What
\* they make of it is the subject of SleepHeap; here it ends the behaviour.
HeapTorn ==
  /\ TickInHeap
  /\ mode = "thread"
  /\ pc[currentTCB] \in {"sleep_remove", "sleep_insert"}
  /\ mode' = "torn"
  /\ UNCHANGED <<currentTCB, exclusive, timeVars, queueVars, checkCode,
                 priority, taskVars>>

-----------------------------------------------------------------------------
\* SVC handlers, as executed by the current task.

_svc_OS_yield ==
  /\ mode' = "pendsv"
  /\ exclusive' = FALSE
  /\ UNCHANGED <<currentTCB, timeVars, queueVars, checkCode, priority>>

\* PendSV is not pended: a new task of higher priority waits for the next one.
FPS_AddTaskCallback(new, level) ==
  /\ priority' = [priority EXCEPT ![new] = level]
  /\ running' \in Inserted(running, new, priority')

_svc_OS_AddTask(new, level) ==
  /\ FPS_AddTaskCallback(new, level)
  /\ exclusive' = FALSE
  /\ UNCHANGED <<currentTCB, mode, timeVars, sleeping, waiting, checkCode>>

\* The callback ignores the task that exits and extracts the front of the queue.
FPS_TaskExitCallback == running' \in Removed(running, running.front, priority)

_svc_OS_task_exit ==
  /\ FPS_TaskExitCallback
  /\ mode' = "pendsv"
  /\ exclusive' = FALSE
  /\ UNCHANGED <<currentTCB, timeVars, sleeping, waiting, checkCode, priority>>

\* Mutant: the waiting task stays in the running queue.
WaitWithoutRemove(o) ==
  /\ \E q \in Inserted(waiting[o], currentTCB, priority) :
       waiting' = [waiting EXCEPT ![o] = q]
  /\ mode' = "pendsv"
  /\ UNCHANGED running

\* Mutant: PendSV is not pended.
WaitWithoutPendSV(o) ==
  /\ running' \in Removed(running, currentTCB, priority)
  /\ \E q \in Inserted(waiting[o], currentTCB, priority) :
       waiting' = [waiting EXCEPT ![o] = q]
  /\ UNCHANGED mode

FPS_TaskWaitCallback(o) ==
  /\ running' \in Removed(running, currentTCB, priority)
  /\ \E q \in Inserted(waiting[o], currentTCB, priority) :
       waiting' = [waiting EXCEPT ![o] = q]
  /\ mode' = "pendsv"

\* Mutant: the check codes are compared the wrong way round.
WaitInverted(o, code) ==
  /\ \/ code = checkCode /\ UNCHANGED <<mode, running, waiting>>
     \/ code # checkCode /\ FPS_TaskWaitCallback(o)
  /\ exclusive' = FALSE
  /\ UNCHANGED <<currentTCB, timeVars, sleeping, checkCode, priority>>

\* A check code that has changed means a notification since it was read: the task
\* does not wait.
_svc_OS_Wait(o, code) ==
  /\ \/ code # checkCode /\ UNCHANGED <<mode, running, waiting>>
     \/ code = checkCode /\ FPS_TaskWaitCallback(o)
  /\ exclusive' = FALSE
  /\ UNCHANGED <<currentTCB, timeVars, sleeping, checkCode, priority>>

\* Mutant: PendSV is not pended.
NotifyWithoutPendSV(o) ==
  /\ waiting[o].tasks # {}
  /\ \E q \in Removed(waiting[o], waiting[o].front, priority) :
       waiting' = [waiting EXCEPT ![o] = q]
  /\ running' \in Inserted(running, waiting[o].front, priority)
  /\ UNCHANGED mode

\* The front of the object's queue becomes ready.
FPS_TaskNotifyCallback(o) ==
  /\ waiting[o].tasks # {}
  /\ \E q \in Removed(waiting[o], waiting[o].front, priority) :
       waiting' = [waiting EXCEPT ![o] = q]
  /\ running' \in Inserted(running, waiting[o].front, priority)
  /\ mode' = "pendsv"

\* The callback returns at once if no task waits.
_svc_OS_Notify(o) ==
  /\ checkCode' = checkCode + 1
  /\ \/ waiting[o].tasks = {} /\ UNCHANGED <<mode, running, waiting>>
     \/ FPS_TaskNotifyCallback(o)
  /\ exclusive' = FALSE
  /\ UNCHANGED <<currentTCB, timeVars, sleeping, priority>>

-----------------------------------------------------------------------------
\* Thread mode.

\* The core executes step "label" of thread t.
Executing(t, label) ==
  /\ mode = "thread"
  /\ currentTCB = t
  /\ pc[t] = label

Goto(t, label) == pc' = [pc EXCEPT ![t] = label]

\* The call returns to the task; its locals are gone.
Return(t) ==
  /\ Goto(t, "user")
  /\ arg' = [arg EXCEPT ![t] = Nil]
  /\ check' = [check EXCEPT ![t] = 0]
  /\ UNCHANGED calls

\* Task t calls an API function whose first step is label.
Calling(t, label) ==
  /\ Executing(t, "user")
  /\ calls > 0
  /\ calls' = calls - 1
  /\ Goto(t, label)

\* A step of thread t that changes nothing of the kernel but the monitor, of
\* which its caller says what becomes.
Local(t, from, to) ==
  /\ Executing(t, from)
  /\ Goto(t, to)
  /\ UNCHANGED <<currentTCB, mode, timeVars, queueVars, checkCode, priority,
                 arg, check, calls>>

\* main() adds a task before OS_Start.
BootAddTask(new, level) ==
  /\ mode = "boot"
  /\ pc[new] = "dormant"
  /\ _svc_OS_AddTask(new, level)
  /\ Goto(new, "user")
  /\ UNCHANGED <<arg, check, calls>>

\* OS_Start and _task_init_switch up to SVC 0, which starts the tick timer.
OS_Start ==
  /\ mode = "boot"
  /\ currentTCB' = IdleTCB
  /\ mode' = "thread"
  /\ UNCHANGED <<exclusive, timeVars, queueVars, checkCode, priority, taskVars>>

\* The idle task's SVC 4, after which it loops.
IdleSchedule ==
  /\ Executing(IdleTCB, "idle_schedule")
  /\ mode' = "pendsv"
  /\ exclusive' = FALSE
  /\ Goto(IdleTCB, "idle_loop")
  /\ UNCHANGED <<currentTCB, timeVars, queueVars, checkCode, priority, arg,
                 check, calls>>

OS_Yield(t) ==
  /\ Calling(t, "user")
  /\ _svc_OS_yield
  /\ UNCHANGED <<arg, check>>

\* A running task adds a task that has not been added yet.
OS_AddTask(t, new, level) ==
  /\ Spawning
  /\ Executing(t, "user")
  /\ calls > 0
  /\ pc[new] = "dormant"
  /\ _svc_OS_AddTask(new, level)
  /\ calls' = calls - 1
  /\ Goto(new, "user")
  /\ UNCHANGED <<arg, check>>

\* The task function returns into _OS_task_end.
TaskEnd(t) ==
  /\ Executing(t, "user")
  /\ _svc_OS_task_exit
  /\ Goto(t, "exited")
  /\ UNCHANGED <<arg, check, calls>>

\* A task that is scheduled again after its end returns from _OS_task_end to no
\* caller.
RunPastEnd(t) ==
  /\ Executing(t, "exited")
  /\ mode' = "fault"
  /\ UNCHANGED <<currentTCB, exclusive, timeVars, queueVars, checkCode,
                 priority, taskVars>>

\* OS_Wait(o, OS_GetCheckCode()): the argument is read before the SVC.
WaitCall(t, o) ==
  /\ Calling(t, "wait_svc")
  /\ check' = [check EXCEPT ![t] = checkCode]
  /\ arg' = [arg EXCEPT ![t] = o]
  /\ UNCHANGED kernelVars

WaitSvc(t) ==
  /\ Executing(t, "wait_svc")
  /\ _svc_OS_Wait(arg[t], check[t])
  /\ Return(t)

OS_Notify(t, o) ==
  /\ Calling(t, "user")
  /\ _svc_OS_Notify(o)
  /\ UNCHANGED <<arg, check>>

SleepCall(t) ==
  /\ Calling(t, "sleep_stamp")
  /\ UNCHANGED <<kernelVars, arg, check>>

\* OS_Sleep: LDREX of _currentTCB, then the due tick goes into the TCB.
SleepStamp(t) ==
  /\ Executing(t, "sleep_stamp")
  /\ \E time \in Durations :
       /\ SleepAcrossWrap \/ ticks + time < TickMod - 1
       /\ data' = [data EXCEPT ![t] = (ticks + time) % TickMod]
       /\ owed' = [owed EXCEPT ![t] = time + 1]
  /\ exclusive' = TRUE
  /\ Goto(t, "sleep_strex")
  /\ UNCHANGED <<currentTCB, mode, ticks, queueVars, checkCode, priority, arg,
                 check, calls>>

SleepStrex(t) ==
  /\ Executing(t, "sleep_strex")
  /\ Goto(t, IF exclusive THEN "sleep_remove" ELSE "sleep_stamp")
  /\ exclusive' = FALSE
  /\ UNCHANGED <<currentTCB, mode, timeVars, queueVars, checkCode, priority,
                 arg, check, calls>>

\* FPS_TaskSleepCallback runs in thread mode: each of its calls is a step if no
\* SysTick falls inside it, which sleep_heap checks, and HeapTorn if one does.
SleepRemove(t) ==
  /\ Executing(t, "sleep_remove")
  /\ running' \in Removed(running, t, priority)
  /\ Goto(t, "sleep_insert")
  /\ UNCHANGED <<cpuVars, timeVars, sleeping, waiting, checkCode, priority,
                 arg, check, calls>>

SleepInsert(t) ==
  /\ Executing(t, "sleep_insert")
  /\ sleeping' \in Inserted(sleeping, t, data)
  /\ Goto(t, "sleep_yield")
  /\ UNCHANGED <<cpuVars, timeVars, running, waiting, checkCode, priority,
                 arg, check, calls>>

SleepYield(t) ==
  /\ Executing(t, "sleep_yield")
  /\ _svc_OS_yield
  /\ Goto(t, "user")
  /\ UNCHANGED <<arg, check, calls>>

-----------------------------------------------------------------------------

Init ==
  /\ currentTCB = Nil
  /\ mode = "boot"
  /\ exclusive = FALSE
  /\ ticks = 0
  /\ checkCode = 0
  /\ priority = [t \in Tasks |-> 0]
  /\ data = [t \in Tasks |-> 0]
  /\ running = EmptyQueue
  /\ sleeping = EmptyQueue
  /\ waiting = [o \in Objects |-> EmptyQueue]
  /\ pc = [t \in Tasks \cup {IdleTCB} |->
             IF t = IdleTCB THEN "idle_schedule" ELSE "dormant"]
  /\ arg = [t \in Tasks |-> Nil]
  /\ check = [t \in Tasks |-> 0]
  /\ calls = MaxCalls
  /\ owed = [t \in Tasks |-> 0]

\* What the kernel does whatever the tasks call.
Handlers ==
  \/ SysTick_Handler
  \/ UpdateSleepingTasks
  \/ PendSV_Handler
  \/ ExtractNull
  \/ HeapTorn
  \/ OS_Start
  \/ IdleSchedule
  \/ \E new \in Tasks : \E level \in Levels[new] : BootAddTask(new, level)

\* The steps of task t that every specification of a task has.
TaskStep(t) ==
  \/ \E new \in Tasks : \E level \in Levels[new] : OS_AddTask(t, new, level)
  \/ RunPastEnd(t)
  \/ SleepCall(t)
  \/ SleepStamp(t)
  \/ SleepStrex(t)
  \/ SleepRemove(t)
  \/ SleepInsert(t)
  \/ SleepYield(t)

\* The steps of task t on the bare kernel.
RawStep(t) ==
  \/ TaskEnd(t)
  \/ OS_Yield(t)
  \/ \E o \in Objects : WaitCall(t, o) \/ OS_Notify(t, o)
  \/ WaitSvc(t)

Next == Handlers \/ \E t \in Tasks : TaskStep(t) \/ RawStep(t)

Spec == Init /\ [][Next]_vars

-----------------------------------------------------------------------------
\* Properties.

\* The kernel state is well typed.
KernelTypeOK ==
  /\ currentTCB \in Tasks \cup {IdleTCB, Nil}
  /\ mode \in Modes
  /\ exclusive \in BOOLEAN
  /\ ticks \in Nat
  /\ checkCode \in Nat
  /\ priority \in [Tasks -> Nat]
  /\ data \in [Tasks -> Nat]
  /\ running \in Queue /\ sleeping \in Queue
  /\ waiting \in [Objects -> Queue]
  /\ arg \in [Tasks -> Objects \cup {Nil}]
  /\ check \in [Tasks -> Nat]
  /\ calls \in Nat
  /\ owed \in [Tasks -> Nat]

\* From OS_Start on there is always a current task: the scheduler falls back on
\* the idle task, and never leaves _currentTCB null.
Started == currentTCB = Nil => mode = "boot"

TypeOK ==
  /\ KernelTypeOK
  /\ Started
  /\ pc \in [Tasks \cup {IdleTCB} -> KernelLabels \cup IdleLabels]

\* The steps of OS_Sleep at which its caller is no longer in the running queue
\* although it executes: FPS_TaskSleepCallback runs in thread mode.
SleepWindow == {"sleep_insert", "sleep_yield"}

\* The queues that hold t.
Places(t) ==
  {q \in {"running", "sleeping"} : t \in IF q = "running" THEN running.tasks
                                                      ELSE sleeping.tasks}
    \cup {o \in Objects : t \in waiting[o].tasks}

\* Every task that was added and has not ended is in exactly one queue, the
\* running queue, the sleeping queue or one object's waiting queue, whatever
\* sequence of SVCs, sleeps and wake-ups has moved it there; between the two heap
\* operations of FPS_TaskSleepCallback it is in none.  True until a SysTick falls
\* inside one of these operations.
ExactlyOneQueue ==
  mode # "torn" =>
    \A t \in Tasks :
      IF pc[t] \in {"dormant", "exited", "sleep_insert"}
        THEN Places(t) = {}
        ELSE \E q \in Places(t) : Places(t) = {q}

\* Thread mode only ever executes a task of the running queue: one that sleeps,
\* waits or was never added is not resumed.
ReadyRuns ==
  (mode = "thread" /\ currentTCB \in Tasks
     /\ pc[currentTCB] \notin SleepWindow)
    => currentTCB \in running.tasks

\* Between interrupts the core runs the task at the front of the running queue,
\* and idles only if that queue is empty: every SVC that changes the front of the
\* queue pends PendSV, and FPS_SchedulerCallback picks again.
FrontRuns ==
  mode = "thread" =>
    IF currentTCB = IdleTCB
      THEN pc[IdleTCB] = "idle_loop" => running.tasks = {}
      ELSE pc[currentTCB] \notin SleepWindow => currentTCB = running.front

\* No ready task outranks the one that runs: whatever the heap brings to the front
\* when a task leaves the queue or enters it, PendSV finds the highest priority
\* there.  True until a SysTick falls inside a heap operation of OS_Sleep.
HighestRuns ==
  mode = "thread" /\ currentTCB \in running.tasks =>
    \A t \in running.tasks : priority[currentTCB] <= priority[t]

\* UpdateSleepingTasks leaves no task asleep past its tick: in thread mode a
\* sleeper is overdue only if it has just put itself into the queue.  True until a
\* SysTick falls inside a heap operation of OS_Sleep.
NoOverdueSleeper ==
  mode = "thread" =>
    \A t \in sleeping.tasks :
      ticks <= data[t] \/ (t = currentTCB /\ pc[t] = "sleep_yield")

\* OS_Sleep(n) keeps its caller asleep for n full tick periods: a task leaves
\* the sleeping queue only after n + 1 SysTicks since its due tick was set.  True
\* until a SysTick falls inside a heap operation of OS_Sleep.
SleepsItsTime ==
  [][\A t \in Tasks :
       t \in sleeping.tasks /\ t \notin sleeping'.tasks => owed[t] = 0]_vars

\* A task that sleeps wakes up: sooner or later a SysTick finds it due, whatever
\* the tasks that run meanwhile do.
SleeperWakes ==
  \A t \in Tasks : t \in sleeping.tasks ~> t \notin sleeping.tasks

\* No task is lost: "it gets moved into the sleeping tasks queue until it has
\* slept" (fixedPriorityScheduler.c), so a task that is not running now is in some
\* queue that a handler will take it from.
NoTaskLost ==
  \A t \in Tasks :
    pc[t] \notin {"dormant", "exited"} => Places(t) # {} \/ currentTCB = t

\* "Task no longer should be executed so remove it from the running tasks queue"
\* (FPS_TaskExitCallback): a task that has ended is in no queue.
EndedTaskLeaves == \A t \in Tasks : pc[t] = "exited" => Places(t) = {}

\* UpdateSleepingTasks moves the tasks of the sleeping queue that are due and
\* nothing else: the scheduler callback never takes a task from an empty queue.
NoNullExtract == ~(PeeksNull /\ ticks > NullData)

=============================================================================
