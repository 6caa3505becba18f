------------------------------- MODULE Script -------------------------------
(***************************************************************************)
(* Tasks that run fixed programs of API calls, as those of Demonstrations  *)
(* do, on the whole of the OS: the kernel, a mutex, a queue of messages    *)
(* and a memory pool.  The tasks of a demonstration share priority levels, *)
(* so the running queue is the array heap itself: TcbHeap says which task  *)
(* comes to its front.                                                     *)
(***************************************************************************)
EXTENDS ItcQueue, MemPool, Functions, Sequences

CONSTANTS
  Demonstrations,  \* for every demonstration, its tasks in the order they are added,
                   \*   with their priorities and programs
  NPointers,       \* the pointer variables of a demonstration of the pool
  MaxBusyTicks     \* bound: SysTicks while a task, not the idle task, executes

Aquire(m)    == [does |-> "OS_MutexAquire", on |-> m]
Release(m)   == [does |-> "OS_MutexRelease", on |-> m]
Sleep(n)     == [does |-> "OS_Sleep", time |-> n]
Wait(o)      == [does |-> "OS_Wait", on |-> o]
Notify(o)    == [does |-> "OS_Notify", on |-> o]
Send(dest)   == [does |-> "OS_ITCSendMsg", to |-> dest]
ReadOne      == [does |-> "OS_ITCReadMsg"]
ReadAll      == [does |-> "while_OS_ITCHasMsg"]
Malloc(i)    == [does |-> "OS_Malloc", into |-> i]
Dalloc(i)    == [does |-> "OS_Dalloc", of |-> i]

\* What a program can be made of.
Statements ==
  {Aquire(m) : m \in Mutexes} \cup {Release(m) : m \in Mutexes}
    \cup {Sleep(n) : n \in Durations}
    \cup {Wait(o) : o \in Objects} \cup {Notify(o) : o \in Objects}
    \cup {Send(dest) : dest \in Tasks} \cup {ReadOne, ReadAll}
    \cup {Malloc(i) : i \in 1 .. NPointers} \cup {Dalloc(i) : i \in 1 .. NPointers}

ASSUME ScriptAssumption ==
  /\ NPointers \in Nat
  /\ MaxBusyTicks \in Nat
  /\ \A d \in DOMAIN Demonstrations :
       Demonstrations[d] \in Seq([task : Tasks, priority : Nat, program : Seq(Statements)])

VARIABLES
  demo,                        \* the demonstration that is built
  line,                        \* the calls of its program that every task has begun
  p,                           \* the global pointers p1, p2, ...
  busy,                        \* SysTicks that may still interrupt a task
  store, length, peak, cut     \* the array of the running queue: see TcbHeap

heapVars   == <<store, length, peak, cut>>
objectVars == <<syncVars, stage, itcData, poolData>>
scriptVars == <<vars, objectVars, demo, line, p, busy, heapVars>>

Heap == INSTANCE TcbHeap WITH key <- priority, Keys <- Nat

\* body n times over, as a for loop runs it.
Repeat(n, body) ==
  [i \in 1 .. n * Len(body) |-> body[((i - 1) % Len(body)) + 1]]

Added == Demonstrations[demo]

DemoTasks == {Added[i].task : i \in DOMAIN Added}

ProgramOf(t) == (CHOOSE a \in Range(Added) : a.task = t).program

\* The call that task t makes next, and the one it has begun last.
NextCall(t) == ProgramOf(t)[line[t] + 1]

LastCall(t) == ProgramOf(t)[line[t]]

AtEnd(t) == line[t] = Len(ProgramOf(t))

\* Task t, which runs no function, makes a call of f next.
Begins(t, f) == stage[t] = "none" /\ ~AtEnd(t) /\ NextCall(t).does = f

Advance(t) == line' = [line EXCEPT ![t] = @ + 1]

-----------------------------------------------------------------------------

KernelCall(t) ==
  \/ Begins(t, "OS_Sleep") /\ SleepCall(t)
  \/ Begins(t, "OS_Wait") /\ WaitCall(t, NextCall(t).on)
  \/ Begins(t, "OS_Notify") /\ OS_Notify(t, NextCall(t).on)

MutexCall(t) ==
  \/ Begins(t, "OS_MutexAquire") /\ AcquireCall(t, NextCall(t).on)
  \/ Begins(t, "OS_MutexRelease") /\ ReleaseCall(t, NextCall(t).on)

ItcCall(t) ==
  \/ Begins(t, "OS_ITCSendMsg") /\ OS_ITCSendMsg(t, NextCall(t).to)
  \/ Begins(t, "OS_ITCReadMsg") /\ OS_ITCReadMsg(t)

PoolCall(t) ==
  \/ Begins(t, "OS_Malloc") /\ OS_Malloc(t)
  \/ Begins(t, "OS_Dalloc") /\ OS_Dalloc(t, p[NextCall(t).of])

\* Task t makes the next call of its program.
DemoCall(t) ==
  /\ \/ KernelCall(t) /\ UNCHANGED objectVars
     \/ MutexCall(t) /\ UNCHANGED <<semVars, taken, stage, itcData, poolData>>
     \/ ItcCall(t) /\ UNCHANGED poolData
     \/ PoolCall(t) /\ UNCHANGED itcData
  /\ Advance(t)
  /\ UNCHANGED p

\* A loop that reads as long as OS_ITCHasMsg says there is a message.
DemoLoop(t) ==
  /\ Begins(t, "while_OS_ITCHasMsg")
  /\ \/ /\ OS_ITCHasMsg(t)
        /\ OS_ITCReadMsg(t)
        /\ UNCHANGED <<line, poolData>>
     \/ /\ ~OS_ITCHasMsg(t)
        /\ Executing(t, "user")
        /\ Advance(t)
        /\ UNCHANGED <<vars, objectVars>>
  /\ UNCHANGED p

\* The steps of a call of OS_Sleep in progress.
SleepBody(t) ==
  \/ SleepStamp(t) /\ owed'[t] = LastCall(t).time + 1
  \/ SleepStrex(t)
  \/ SleepRemove(t)
  \/ SleepInsert(t)
  \/ SleepYield(t)

\* The call goes on, or the function of task t returns after the last one.
DemoBody(t) ==
  /\ \/ InnerStep(t) /\ UNCHANGED <<itcData, poolData>>
     \/ stage[t] # "none" /\ ItcStep(t) /\ UNCHANGED poolData
     \/ stage[t] \notin {"none", "ma_end"} /\ PoolStep(t) /\ UNCHANGED itcData
     \/ /\ stage[t] = "none"
        /\ SleepBody(t) \/ (AtEnd(t) /\ EndStep(t))
        /\ UNCHANGED objectVars
  /\ UNCHANGED <<line, p>>

\* OS_Malloc returns the pointer, which the task stores and writes through.
DemoReturn(t) ==
  /\ MaReturn(t)
  /\ p' = [p EXCEPT ![LastCall(t).into] = item[t]]
  /\ UNCHANGED <<line, itcData>>

\* main() adds every task, in order, and calls OS_Start.
BootsInOrder ==
  mode = "boot" =>
    LET n == Cardinality({t \in Tasks : pc[t] # "dormant"}) IN
      IF n = Len(Added) THEN mode' = "thread"
      ELSE /\ pc'[Added[n + 1].task] # "dormant"
           /\ priority'[Added[n + 1].task] = Added[n + 1].priority

\* What the tasks do between two sleeps takes few ticks.
CountsBusyTicks ==
  IF ticks' # ticks /\ currentTCB # IdleTCB
    THEN busy > 0 /\ busy' = busy - 1 ELSE UNCHANGED busy

\* Every insertion into and removal from the running queue is one of its array,
\* whose first slot is the front.
ArrayFollows ==
  LET added   == running'.tasks \ running.tasks
      removed == running.tasks \ running'.tasks
  IN /\ \/ added = {} /\ removed = {} /\ UNCHANGED heapVars
        \/ \E t \in added : Heap!OS_TCBPriorityQueueInsert(t, priority'[t])
        \/ \E t \in removed : Heap!OS_TCBPriorityQueueRemove(t)
     /\ running'.front = IF length' = 0 THEN Nil ELSE store'[0]

\* The other queues hold five tasks at most, of which only the front is taken:
\* TcbHeap shows that they keep their order.
OthersInOrder ==
  /\ Sorted(sleeping', data')
  /\ \A o \in Objects : Sorted(waiting'[o], priority')

ScriptInit ==
  /\ ItcInit
  /\ OS_InitMempool
  /\ demo \in DOMAIN Demonstrations
  /\ line = [t \in Tasks |-> 0]
  /\ p = [i \in 1 .. NPointers |-> Nil]
  /\ busy = MaxBusyTicks
  /\ store = [i \in Heap!Slots |-> Nil]
  /\ length = 0
  /\ peak = 0
  /\ cut = FALSE

ScriptNext ==
  /\ \/ Handlers /\ BootsInOrder /\ CountsBusyTicks /\ UNCHANGED <<objectVars, line, p>>
     \/ /\ \E t \in DemoTasks : DemoCall(t) \/ DemoLoop(t) \/ DemoBody(t) \/ DemoReturn(t)
        /\ UNCHANGED busy
  /\ ArrayFollows
  /\ OthersInOrder
  /\ UNCHANGED demo

\* The core always executes something.  The few ticks that interrupt a task cannot
\* keep it from its next step.
ScriptSpec == ScriptInit /\ [][ScriptNext]_scriptVars /\ WF_scriptVars(ScriptNext)

=============================================================================
