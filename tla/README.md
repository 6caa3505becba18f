# A TLA+ verification of DocetOS

DocetOS is a small preemptive real-time operating system for one Cortex-M4 core.
This project models its kernel, its fixed-priority scheduler, its TCB priority
queue, its mutexes, semaphores, message queues and memory pools and the programs of
its demonstrations in TLA+, checks them with TLC on small instances and proves with TLAPS,
for every instance, the safety of the queue, of the kernel, of the four objects built on it,
and of any programs that use all of them together.

## The system

| part | state | operations | used by |
| --- | --- | --- | --- |
| TCB priority queue (`tcb_priority_queue.c`) | an array heap of TCB pointers, its length, the field it is ordered by | insert, extract, peek, remove, re-sort | scheduler, every object |
| kernel core (`os.c`, `os_asm.s`) | `_currentTCB`, `_ticks`, `_checkCode`, the TCBs, pending PendSV, the exclusive monitor | SysTick, PendSV, the SVCs (add task, exit, yield, schedule, wait, notify), `OS_Sleep`, start-up | everything |
| fixed-priority scheduler (`fixedPriorityScheduler.c`) | running queue, sleeping queue | callbacks: pick next, add, exit, wait, notify, sleep | kernel core |
| mutex (`mutex.c`) | owner, counter, waiting queue | acquire, release | tasks, message queue, pool |
| semaphore (`semaphore.c`) | counter, size, waiting queue | acquire, release, queries, wait, notify | tasks, message queue, pool |
| message queue (`itc_queue.c`) | buffer of messages, mutex, semaphore | send, read, has message | tasks |
| memory pool (`memory.c`) | list of free blocks, mutex, semaphore | initialise, allocate, free | tasks, `main()` |
| demonstrations (`Demonstrations/`, `main.c`) | the position of every task in its function | eight programs of API calls | |

Tasks call the objects, the objects call the kernel through SVC instructions, the
kernel calls the scheduler's callbacks, the callbacks move TCBs between queues and
pend PendSV, and PendSV asks the scheduler which task to run. SysTick counts a tick
and pends PendSV. Data is shared without locks: between thread code and handlers
(`OS_Sleep` changes the scheduler's queues in thread mode), and between tasks (an
object's fields, protected by LDREX/STREX or by nothing).

What is hard here:

- **Interleaving.** A SysTick can fall between any two instructions of a task, and
  another task may then run. `OS_Sleep` is exposed to this in the middle of the scheduler's
  own heap operations. SVC, PendSV and SysTick have the same priority
  (`NVIC_SetPriority(SysTick_IRQn, 0x10)` truncates to 0), so handlers do not
  preempt each other.
- **Check codes.** `OS_Wait` refuses to wait if a notification happened since its
  caller read the check code. Reading it too late loses a wakeup; keeping it for a
  whole retry loop turns waiting into spinning.
- **Exclusive access.** Every exception entry and return opens the monitor, and
  `_task_switch` executes CLREX.
- **Time.** A sleeper must leave the sleeping queue in the right tick.
- **Limits.** Full queues drop tasks silently, the tick counter wraps, the heap is
  only nearly a heap, and peeking at an empty queue yields a null TCB.

What makes each part correct: the queue keeps its tasks and puts the lowest key in
front; the kernel keeps every task in exactly one queue, runs the highest-priority
ready task and wakes sleepers in time; a mutex has one owner, which only its owner
gives up, and nobody waits for a mutex without somebody going to notify; a
semaphore's count never exceeds its size and a release wakes an acquirer; a message
is delivered once, to its destination; a block of the pool has one user at a time.

## Modules

`TcbQueue` is a priority queue as its callers see it: the set of its tasks and the
task in front. Its operators (`Inserted`, `Removed`) return the set of queues the
operation may leave. `HeapOrdered = TRUE` says that the lowest key is in front;
`FALSE` allows any front the real heap may produce.

`TcbQueueSpec` is the state machine of those operators. `TcbHeap` is the array:
`HeapUp`, `HeapDown` and the operations of `tcb_priority_queue.c`, index by index,
written as functions that are recursive over the slots. `peak` and `cut` are history
variables.
`TcbHeap!QueueSpec` states that the array implements `TcbQueueSpec`, so that what
`Kernel` assumes of a queue is checked against the code of the queue.

`Kernel` models `os.c`, `os_asm.s` and `fixedPriorityScheduler.c`:

- `mode` is what the core does: `main()` before `OS_Start`, thread mode, PendSV
  pending, the loop in `UpdateSleepingTasks`, or stopped by a fault. No thread step
  is possible between an SVC that pends PendSV and PendSV.
- An SVC handler is an operator (`_svc_OS_Wait`, ...) that includes the scheduler
  callback it calls. The thread step that executes the SVC conjoins it.
- `pc` is the next step of every task. Code that runs in thread mode has a step for
  each access to shared state: `OS_Sleep` is `SleepCall`, `SleepStamp` (LDREX, tick,
  due time; a tick between them makes the STREX fail and the step repeat),
  `SleepStrex`, `SleepRemove`, `SleepInsert`, `SleepYield`.
- The tasks are arbitrary: `TaskStep` and `RawStep` let them call the API in any
  order, at most `MaxCalls` times between them.
- `owed` is a history variable: the SysTicks until a sleeper has slept in full.
- `SleepRemove` and `SleepInsert` are one step each, as the heap operations of the handlers
  are. A SysTick inside one of them finds an array that is half updated; in `Kernel` that
  is `HeapTorn`, which ends the behaviour (mode "torn").

`SleepHeap` takes these two operations apart. Its queues are the arrays themselves (`heap`),
and the removal and the insertion are a step for each load or store that a handler could
come between: `RemoveSearch`, `RemoveLength` and `RemoveMove` are line 172 of
`tcb_priority_queue.c` with the search before it, `RemoveClear` line 173, `RemoveSift` and
`RemoveSwap` the two stores of a pass of `HeapDown`; `InsertTest` to `InsertSwap` are the
insertion. `op` holds what the registers hold. Tasks do nothing but sleep there. Without a
SysTick inside an operation the module implements `Kernel` (`KernelSpecHolds`); with one,
the handlers work on the array as it is, and what the scheduler promises is lost in the
three ways of `SleepHeapTask.cfg`, `SleepHeapFront.cfg` and `SleepHeapDue.cfg`.

`LockSpec` is an abstract lock. `Mutex` extends `Kernel` with `mutex.c`, one step per
LDREX, STREX, SVC and access to `counter`, and is checked to implement `LockSpec`.
`held` is a history variable: what each task has acquired and not released. `Stray` is the
set of mutexes that tasks release without owning them, too, as the API lets them.

`SemaphoreSpec` is an abstract counting semaphore. `Semaphore` extends `Kernel` with
`semaphore.c`, again one step per LDREX, STREX and SVC. `loaded` is the register the
LDREX has filled; `taken` is a history variable. `OS_SemaphoreGetCount`, which writes
back what it reads, is a call with an LDREX and a STREX of its own.

`SyncCalls` composes `Mutex` and `Semaphore`: a function made of their calls is at a
`stage`, and enters a call by setting the `pc` of the component below; when that `pc`
is "user" again, the function goes on. `ItcQueue` (`itc_queue.c`) and `MemPool`
(`memory.c`) are such functions. Every mutex and semaphore has a queue of waiting tasks of
its own (`SyncAssumption`). The stages of the functions are the calls they make and the loads and
stores in between: `TxTest` to `TxTake` are `OS_ITCSendMsg`, `RxTest` to `RxGive`
`OS_ITCReadMsg`, `MaTest` to `MaReturn` `OS_Malloc` and `DaLink` to `DaReturn`
`OS_Dalloc`. A search loop is one step where only the holder of the mutex, or only the
caller, changes what it looks for. `pending`, `dropped`, `nextId` and `owned` are history
variables.

`MailboxSpec` and `AllocatorSpec` are what the two promise the tasks that share them: a box
of messages with a size, a set of free blocks, and calls that take effect in one step.
`ItcQueue` and `MemPool` are checked to implement them. The mailbox is the messages in the
occupied slots; a send takes effect with the store that addresses the slot, a read with the
one that clears it, and either where the search fails. The set of free blocks is what the
list leads to (`FreeBlocks`); allocation and deallocation take effect when `head` moves.
The abstract calls that fail are there because the code has them: a full box loses a
message, an empty set gives an allocator the word behind the null head. That the functions
still use a mutex in between, that the semaphore is counted before or after the slot or
block changes hands, and that a loop takes many steps, does not show.

`MemPool` starts from the pool as `OS_InitMempool` leaves it: `AfterAdds` pushes the blocks
one by one onto an empty list. The adds also acquire and release the pool's mutex and
semaphore, which are not initialised yet. Nothing else runs then, and the initialisations
that follow overwrite whatever the calls left in both.

`Script` puts all objects on one kernel and gives every task a fixed program of calls;
the tasks are added in the order of `main()`. `demo` is the demonstration that was built.
`Statements` are the calls programs are made of.
Tasks share priorities here, so the running queue is at the same time the array of
`TcbHeap` (`ArrayFollows`), which says which of them comes first. `Demos` holds the
programs, priorities and sizes of the source; 500 ticks are one.

`HeapProofs`, `KernelProofs`, `MutexProofs`, `SemaphoreProofs`, `ItcProofs`, `PoolProofs`
and `ScriptProofs` hold the theorems about the module of the same name, and `SyncProofs` the
lemmas about the calls of `SyncCalls` that the last three share. The `MC` modules
define the values of constants and symmetry for TLC. Operators introduced with "Mutant:" are variants with a
plausible defect, which no specification uses; substituting one for the definition
that follows it makes a property of the runs fail, which shows that the property
depends on that definition.

## Runs

| run | instance | shows |
| --- | --- | --- |
| `heap` | 6 tasks, 5 slots, 3 keys | `StoreOK`: no task is lost, doubled or misplaced. `ShortQueueInOrder`: the front is minimal up to four tasks, and up to five if only the front is ever taken. `QueueSpec`: refinement of `TcbQueueSpec` |
| `kernel_sched` | 3 tasks, 2 levels, 1 object, ticks modulo 4, 3 calls, no SysTick inside a heap operation of `OS_Sleep` | `ExactlyOneQueue`, `FrontRuns`, `HighestRuns`, `NoOverdueSleeper` |
| `kernel_spawn` | the same, and running tasks add tasks, the heap's order is not relied on, ticks pass the word behind the null TCB, and SysTicks may end the behaviour inside a heap operation of `OS_Sleep` | what survives: `ReadyRuns` and `SleepsItsTime` |
| `sleep_heap` | 4 tasks that sleep, 2 levels, 4 slots, ticks modulo 4, 3 calls, no SysTick inside a heap operation | `KernelSpecHolds`: the loads and stores of the arrays add up to the steps of `Kernel` |
| `mutex` | 3 tasks, 2 levels, 2 mutexes, one of them also released by non-owners, ticks modulo 3, 4 calls | `MutualExclusion`, refinement of `LockSpec`; for the mutex that only its owners release `HeldIsOwned` and `NoLostWakeup` |
| `sem` | 3 tasks, 2 levels, 2 resources, 4 calls, releases of what was not acquired | `CountWithinSize`, `SemNoLostWakeup`, refinement of `SemaphoreSpec` |
| `sem_live` | 2 tasks of different level, 1 resource, 5 calls, fairness | `ResourcesConserved`, `SemWaiterServed`, `SleeperWakes` |
| `itc` | 3 tasks on 3 levels, 2 slots, messages 1 to 2, 1 to 3, 2 to 3, 5 calls | `BufferIntegrity`, `NoPhantomSlot`, `GuardedReadDelivers`, refinement of `MailboxSpec` |
| `pool` | 3 tasks on 3 levels, 2 blocks, 4 calls | `BlockInOnePlace`, `NoPhantomBlock`, refinement of `AllocatorSpec` |
| `demos` | the eight demonstrations in full: up to 6 tasks on 5 levels, 10 message slots, 20 messages, 3 blocks; fairness | what `demonstration_tasks.h` announces: `MuxInTurn`, `BasicInPriorityOrder`, `NotifiedInTurn`, `EarlyMessagesLast`, `ReceiverWaitsFirst`, `FreedBlockReused`, `AllDelivered`, `DemoEnds` |

`SleepsItsTime` and `NoOverdueSleeper` of the kernel's runs say of all tasks what the sleeping
demonstration shows of three; of that one only `DemoEnds` is checked.

The demonstrations work although the queue and the pool have the defects below: their
tasks have different priorities, and the one that could be overtaken always runs until
it waits. The comments in `itc_demonstration.c:114-118` and `132-134` say that tasks
hang there; they are older than the programs, and `demonstration_tasks.h` describes
what happens.

Two of the listed runs end in a violation. Each checks a statement of the repository's
documentation that the code does not keep.

| run | statement | what happens |
| --- | --- | --- |
| `kernel_task_lost` | a sleeping task is in the sleeping queue until it has slept (`fixedPriorityScheduler.c:12`) | a SysTick between `Remove` and `Insert` of `FPS_TaskSleepCallback` leaves it in no queue, for ever |
| `itc_drop` | "Find an empty place in the queue and insert the message there" (`itc_queue.c:42`) | a woken sender does not test again; without a place the message is dropped |

The others that were met are kept as configurations beside the runs. `tlc -config
SleepHeapTask.cfg MCSleepHeap` shows the first one, and so on.

| configuration | property | statement | what happens |
| --- | --- | --- | --- |
| `SleepHeapTask.cfg` `MCSleepHeap` | `WokenTaskKept` | a task that has slept "is moved back into _runningTasksQueue" (`fixedPriorityScheduler.c:14`) | a SysTick between the load and the store of `--(queue->length)` (`tcb_priority_queue.c:172`) wakes a task into the slot that the store then takes off the array: it never runs again |
| `SleepHeapFront.cfg` `MCSleepHeap` | `FrontOutranks` | the running queue has the highest-priority tasks "at the front" (`fixedPriorityScheduler.c:26`) | a SysTick between lines 172 and 174 dispatches the task that was moved into slot 0, before `HeapDown` has put it in order |
| `SleepHeapDue.cfg` `MCSleepHeap` | `NoneOverdue` | the sleeping queue has the task with the lowest time left "at the front" (`fixedPriorityScheduler.c:30`) | a SysTick between lines 132 and 133 finds a later sleeper in front, and the one that is due stays asleep |
| `MutexSpin.cfg` `MCMutex` | `OwnedMeansWait` | the caller of an owned mutex waits (`mutex.h:49`) | its check code is stale, so it spins and starves an owner that does not outrank it |
| `MutexRecursive.cfg` `MCMutex` | `RecursiveAcquireReturns` | "Recursive mutexes" (`README.md:8`) | an acquire by the owner loops for ever |
| `MutexStray.cfg` `MCMutex` | `StraySimplyReturns` | a release by a non-owner simply returns (`mutex.h:57`) | it clears the counter of the task that has just acquired |
| `KernelExit.cfg` `MCKernel` | `EndedTaskLeaves` | the task that ends is removed from the running queue (`fixedPriorityScheduler.c:111`) | the front is extracted, which may be a task just added |
| `SemSpin.cfg` `MCSemaphore` | `EmptyMeansWait` | the caller of a semaphore without resources waits (`semaphore.h:43`) | its check code is stale, as in `MutexSpin.cfg`; here a notification that was delayed by a preemption is enough |
| `SemWrap.cfg` `MCSemaphore` | `ReleaseNeverLowers` | a release too many "will simply return" (`semaphore.h:51`) | with 2^32 - 1 resources the test wraps and the counter becomes 0 |
| `ItcLeak.cfg` `MCItcQueue` | `CountMatchesBuffer` | the semaphore keeps "track of how many messages are in the queue" (`itc_queue.h:44`) | a read before the sender's acquire: its release is refused and a slot is lost |
| `ItcEmptyRead.cfg` `MCItcQueue` | `ReadFindsMessage` | the caller waits "until a message enters the queue" (`itc_queue.h:79`) | it waits only if the queue has no message for anybody, and returns without one |
| `ItcLostWakeup.cfg` `MCItcQueue` | `WaitingReaderServed` | "At which point the calling task will be woken" (`itc_queue.h:80`) | the check code is read after the test: the message in between is missed |
| `PoolNull.cfg` `MCMemPool` | `PoolNotEmptied` | "to ensure the pool doesn't get emptied beyond its limits" (`memory.h:45`) | a woken allocator does not test again and goes through a null head |

### Bounds

- *Tasks and queues.* Three tasks give a running task, one that is woken and one that
  waits; `QueueSlots` = 3 makes every queue large enough for all of them, as
  `MAX_TASKS` = 10 is in the demonstrations. The heap needs five used slots for its
  order to break, and a sixth task to be refused. `HeapOrdered = TRUE` is used only
  with up to four tasks, where `ShortQueueInOrder` justifies it. `sleep_heap` has four,
  so that a removal leaves `HeapDown` two children to compare, and as many slots; the
  configurations that violate its promises need three. In `demos`,
  with six, the running queue is the array, and the others never hold more than five,
  of which only the front is taken (`OthersInOrder`).
- *Levels.* Two levels give a higher, an equal and a lower priority.
- *Calls.* Three calls cover two tasks that meet in the scheduler and a third event
  (a sleep, a notification). A race for a mutex needs four: a task that sleeps before it
  acquires can preempt another one inside a call, and must sleep again to let it go
  on while the mutex is held. Five let the tasks of `sem_live` and `MutexSpin.cfg` use the
  object and sleep repeatedly. The bound limits calls, not interrupts or retries.
  In `itc` five calls are two messages, the reads that `OS_ITCHasMsg` allows and the sleep
  by which the reader lets the sender run; in `pool` four are two allocations, a
  deallocation and a third allocation that meets it. Both runs reach full queues, empty
  pools and the failing calls of `MailboxSpec` and `AllocatorSpec`; only a read that finds
  nothing (`Miss`) needs readers that do not ask first, which the proof covers.
- *Slots, resources and blocks.* Two, so that one can be taken while another is free
  or being given back. The demonstrations run with the sizes of the source.
- *Priorities in compositions.* `itc` and `pool` have one level per task, which a sleep
  brings into play: a task that wakes preempts the others in the middle of any call,
  at every step.
- *Counters.* `UIntMax` stands for 2^32 - 1, above every size but in `SemWrap.cfg`.
- *Ticks in demonstrations.* `MaxBusyTicks` (3) ticks interrupt a task, at any
  steps; all others come while the core idles. Between two sleeps the tasks execute a
  few hundred instructions, and a tick is a millisecond.
- *Time.* `TickMod` stands for 2^32. Ticks wrap in the runs, but no task sleeps
  across the wrap (`SleepAcrossWrap = FALSE`): with `TRUE`, `SleepsItsTime` fails,
  because `OS_Sleep` adds without regard to the wrap. `NullData` is larger than any
  tick, as the word is at run time for the first 37 hours or so; `kernel_spawn`
  makes it small.
- *Check code.* It is a natural number: 2^32 notifications while a task is
  preempted are not considered.

*SysTicks in `OS_Sleep`.* `TickInHeap = FALSE` says that no SysTick falls inside one of the
two heap operations that `OS_Sleep` runs in thread mode. The hardware does not promise it:
it is the assumption under which the scheduler does what it promises, and
`SleepHeapTask.cfg`, `SleepHeapFront.cfg` and `SleepHeapDue.cfg` show what happens otherwise.
It holds in every run but `kernel_spawn`, where such a SysTick ends the behaviour. `TickInHandoff = FALSE` excludes the window of `kernel_task_lost` between the
two operations as well. It is assumed in the compositions, in the demonstrations and
in the runs with fairness, where a lost task would end every other question; the
runs of `Kernel`, `sleep_heap`, `mutex` and `sem` include that window.

Deadlock is checked in every passing run except `kernel_spawn` and `sleep_heap`, where a
fault may stop the core.

### Fairness

`MutexFairSpec` assumes what the hardware gives. SysTick and PendSV happen (weak
fairness). The core executes thread code between interrupts: some thread step
happens infinitely often (strong fairness of `ThreadStep`, because an interrupt
disables it for a while; it is one condition for the whole core, so no task is
promised the processor). An LDREX/STREX pair is not interrupted every time (strong
fairness of `UninterruptedStrex`: a tick lasts a millisecond, the pair a few
cycles). No fairness is assumed between tasks, and SysTicks spare the window of
`kernel_task_lost` (`TickInHandoff = FALSE`), which is not a guarantee of the code.
`SemFairSpec`, `ItcFairSpec` and `PoolFairSpec` assume the same.

Under this fairness an acquire of a mutex need not return, so no run says that it does. In
`MutexSpin.cfg` two tasks of one level are enough. Distinct levels do not help: with three
tasks, the highest waits for the lowest, the lowest clears the owner, the one in between
wakes, takes the mutex and sleeps, the lowest notifies the highest, and the highest, with a
check code that is now stale, spins over an owner that it outranks. TLC reaches that state with
`MutexSpin.cfg` changed to three tasks on `DistinctLevels` and six calls. And with two
tasks only, one that acquires again before each of its sleeps can keep a lower one out
for ever.

`SemWaiterServed` needs no more: a waiting task is in nobody's way, and the release or the
acquire that will notify it cannot spin for ever while resources are left.

The demonstrations assume weak fairness of the whole next-state relation only: the core
does not stop. Since only `MaxBusyTicks` ticks interrupt a task and the others come
while the core idles, a loop without progress would be a counterexample.

## Proofs

`HeapProofs` proves about `Spec` of `TcbHeap`, for every set of tasks and keys and every
length of the array:

| theorem | assumptions |
| --- | --- |
| `ArrayStaysWhole`: `Spec => []StoreOK` | none |
| `ShortQueuesOrdered`: `Spec => []ShortQueueInOrder` | none |
| `HeapImplementsQueue`: `Spec => QueueSpec` | `HeapOrdered => Few` |

`HeapUp` and `HeapDown` are recursive over the slots, so the first thing to prove is that
the recursions have solutions: the index falls in the one (`ClimbExists`) and grows up to
the length of the array in the other (`SinkExists`). The induction is over a set of
numbers (`AllNumbers`). `HeapUpStep` and `HeapDownStep` are the equations that follow, one
pass of the loop each. A pass swaps two used slots, so the whole loop leaves the same tasks
in the same number of slots (`Packed`, `Reordered`); with what an insertion and a removal do
before it (`InsertStep`, `VacateStep`) this gives `StoreOK`. `UpFront`, `UpLeast` and
`HeapDownFront` say which task the loops can bring to slot 0, and are what the refinement
rests on.

`ShortQueueInOrder` is not inductive. Of the tasks behind the front, the two children are
all that `HeapDown` compares, so an extraction leaves the front least if no more than three
tasks remain; with four, the fourth counts. `BranchInOrder` adds that slot 3 is in order
with slot 1, on which `HeapUp` and `HeapDown` agree, and that this lasts while only fronts
are taken. A sixth task, or a removal from the middle among five, breaks it.

`Few` says that at most four tasks can be in the queue, because the array or the set of
tasks is no larger. `HeapOrdered = TRUE` is a promise about the queue that the kernel's
proofs use for `HighestRuns` and `NoOverdueSleeper`; `HeapImplementsQueue` shows that the
array keeps it for `Few`. `HeapOrdered = FALSE` promises of the order only that
a front that stays in the queue gives way to none but a task with a lower key; that much is
kept for any number of tasks.

`KernelProofs` proves about `Spec` of `Kernel`, for every set of tasks, objects, levels
and durations and every bound:

| theorem | assumptions |
| --- | --- |
| `TypeCorrect`: `Spec => []TypeOK` | none |
| `OnlyReadyRun`: `Spec => []ReadyRuns` | none: also with overflowing queues, unordered heaps and tasks added while running |
| `NoTaskDroppedOrDoubled`: `Spec => []ExactlyOneQueue` | `Closed` |
| `FrontAlwaysRuns`: `Spec => []FrontRuns` | `Closed` |
| `HighestPriorityRuns`: `Spec => []HighestRuns` | `Closed` and `HeapOrdered` |
| `SleepLastsItsTime`: `Spec => SleepsItsTime` | `~SleepAcrossWrap` |
| `SleepersWokenInTime`: `Spec => []NoOverdueSleeper` | `Closed` and `HeapOrdered` |

`Closed` says that there are at most `QueueSlots` tasks and that all are added before
`OS_Start`. Without the first, a full queue drops a task; without the second, the
defect that `KernelExit.cfg` shows does.

The theorems speak of the code up to the first SysTick inside a heap operation of
`OS_Sleep`: `HeapTorn` is a step of `Spec`, but the behaviour ends there, and `ExactlyOneQueue`,
`HighestRuns` and `NoOverdueSleeper` promise nothing in mode "torn". That is as much as is
true, since the code breaks each of the three after such a SysTick (`SleepHeapTask.cfg`,
`SleepHeapFront.cfg`, `SleepHeapDue.cfg`). The same holds of the theorems about the objects and
the programs that run on this kernel.

`TypeOK` is not inductive: an SVC that takes the front of a queue must find a task
there. `Typed` adds that the front of every queue is one of its tasks
(`WellFormedQueues`) and that a waiting call names an object. `ExactlyOneQueue` is not
inductive either: an operation on the running queue removes the *front* or the
*current* task, and what these have to do with each other depends on the program
counters. `Placed` states it: no task is in two queues (`Apart`), a task is in one
unless its program counter says otherwise (`Present`), and thread mode executes the
front of the running queue or a task inside `OS_Sleep` that has just left it
(`Dispatched`). From `Closed` a counting argument (`RoomForAll`) shows that no insertion
finds a full queue. For `HighestRuns` the queue operators keep the lowest key in front
(`InsertedSorted`, `RemovedSorted`).

For `SleepsItsTime`, `Timed` relates the SysTicks a sleeper is still owed to its due tick:
their sum with `_ticks` is one more than `data`, and `data` lies before the wrap. A task
leaves the sleeping queue only as its front and only when due (`SleepersLeave`), so nothing
is owed to it; the order of the queue and lost or added tasks make no difference.
`~SleepAcrossWrap` is a restriction of the callers that the code needs (see Bounds).
`NoOverdueSleeper` needs the order: if the front is not due, nobody behind it is. It also
needs `Placed`, because `OS_Sleep` changes the due tick of a task that must not be in the
sleeping queue at that moment.

`MutexProofs` proves about `MutexSpec` of `Mutex`, where tasks may acquire a mutex they own,
unless an assumption says otherwise, and release one of `Stray` that they do not.
`HeldIsOwned` and `NoLostWakeup` speak of the mutexes outside `Stray`.

| theorem | assumptions |
| --- | --- |
| `MutexTypeCorrect`: `MutexSpec => []MutexTypeOK` | none |
| `OneHolder`: `MutexSpec => []MutualExclusion` | none |
| `MutexImplementsLock`: `MutexSpec => LockSpecHolds` | none |
| `HeldMutexCountsOwner`: `MutexSpec => []HeldIsOwned` | none |
| `MutexWakeupsKept`: `MutexSpec => []NoLostWakeup` | `Closed` and `~Recursive` |

`MutualExclusion` speaks of tasks that have returned from `OS_MutexAquire`; it is not
inductive because it says nothing of those inside a call. `Owned` does: a task that
holds a mutex owns it (`HoldersOwn`), so does one between its STREX and the increment
of the counter, or between the owner test and the clearing of the owner
(`CallersOwn`), and a task inside `OS_MutexRelease` has left its critical section
(`ReleasersLeft`). What makes the STREX safe is `MonitorFree`: while the
exclusive monitor is set and thread mode is about to store, the mutex is still free,
because every exception that could let another task run clears the monitor. The
refinement maps `tcb` to the owner and the argument of a task inside `OS_MutexAquire` to
what it asks for; under `Owned` every step of the mutexes is a step of `LockSpec` or
changes neither, and the kernel's steps change neither (`OtherStepPc`).

The counter of a mutex is read and written by plain loads and stores. `CountsOwner` says
what it must be at every step of a call: 1 for a holder, 0 between the STREX and the
increment and again after the decrement, 0 while the mutex is free. It is inductive only
for a mutex that its owners alone release, as `MutexStray.cfg` shows; what happens to the
mutexes of `Stray` does not disturb it.

`NoLostWakeup` says that while a task waits for a mutex, another one that does not is bound
to notify it or to take the mutex (`WillNotify`): it holds the mutex, or is on its way
through a release that ends in `OS_Notify`, or is awake inside an acquire while the mutex
is free. That `tcb` names an owner would not be enough. After a release by a non-owner has
cleared the counter, the owner's own release wraps it and returns without a
notification, and an owner that acquires again loops; hence the exception for `Stray`, and
`~Recursive`. The proof has two halves. `Wakeups` is about the queue: a task that waits has an owner, a
release that has not notified yet or an awake acquirer (`WakeupComing`). What keeps it is
`WaitsForOwner`: a task between its LDREX and the SVC of `OS_Wait` whose check code is still
current finds the mutex owned or its release not yet notified; if the owner left in
between, the check code has changed and the SVC refuses to wait. `OwnerBound` is about the
owner: whoever `tcb` names holds the mutex or is between the STREX and the return of its
acquire, or inside a release that still has its notification to make, because by
`CountsOwner` its decrement finds a count of one, and because nobody acquires what he
holds (`AcquirersLack`). It needs `Closed`, since a notification must find room in the
running queue and the caller of `OS_Wait` must be at its front.

`SemaphoreProofs` proves about `SemSpec` of `Semaphore`, again for tasks that call as they
please, releasing what they never acquired included.

| theorem | assumptions |
| --- | --- |
| `SemTypeCorrect`: `SemSpec => []SemTypeOK` | none |
| `CounterWithinSize`: `SemSpec => []CountWithinSize` | none |
| `SemaphoreImplementsSpec`: `SemSpec => SemaphoreSpecHolds` | `SizesBelowWrap` |
| `SemaphoreWakeupsKept`: `SemSpec => []SemNoLostWakeup` | `Closed` |
| `ResourcesKept`: `SemSpec => []ResourcesConserved` | `~OverRelease` |

`CountWithinSize` is not inductive: a STREX stores a sum or difference of what the LDREX
read, and the test that bounds it was made on that value. `RegisterCurrent` adds that,
while the exclusive monitor is set and the current task is about to store, `loaded` still
is the counter, an acquire has read more than 0 and a release has passed its test. It is
kept because a handler that lets another task run opens the monitor
(`SemHandlersMonitor`) and because the STREX that follows `OS_Wait` finds it open.
`SizesBelowWrap` (`nResources` below `UINT32_MAX`) is what the refinement needs on top:
without it the test of a release wraps, as `SemWrap.cfg` shows. Under it a release that
passes the test finds a semaphore that is not full, and one that fails it a full one
(`IncrementBelowWrap`).

`SemNoLostWakeup` compares numbers: of resources that are left, of tasks about to notify, of
awake acquirers. `SemWakeups` adds what the mutex needs too, that a task whose `OS_Wait`
would not be refused has seen a counter that is still 0 or has a notification coming
(`WaitsWhileEmpty`). Every step then changes each set by one task at most.
`ResourcesConserved` is kept because the STREX stores the current counter minus or plus one
(`RegisterCurrent`), and, with `~OverRelease`, because a release never meets a full
semaphore and so is never refused.

`ItcProofs` and `PoolProofs` prove about `ItcSpec` and `PoolSpec`, in which a function of
`itc_queue.c` or `memory.c` calls the mutex and the semaphore, which call the kernel.

| theorem | assumptions |
| --- | --- |
| `ItcTypeCorrect`: `ItcSpec => []ItcTypeOK` | none |
| `MessagesKept`: `ItcSpec => []BufferIntegrity` | none: also for readers that do not ask first |
| `ItcImplementsMailbox`: `ItcSpec => MailboxSpecHolds` | none: also for readers that do not ask first |
| `GuardedReadersServed`: `ItcSpec => GuardedReadDelivers` | `Guarded` |
| `FreeSlotsReal`: `ItcSpec => []NoPhantomSlot` | `Guarded` |
| `PoolTypeCorrect`: `PoolSpec => []PoolTypeOK` | none |
| `BlocksKept`: `PoolSpec => []BlockInOnePlace` | none |
| `PoolImplementsAllocator`: `PoolSpec => AllocatorSpecHolds` | none |
| `FreeBlocksReal`: `PoolSpec => []NoPhantomBlock` | none |
| `ItcMutexesAreLocks`, `PoolMutexesAreLocks`: `... => LockSpecHolds` | none |
| `ItcSemaphoresCount`, `PoolSemaphoresCount`: `... => SemaphoreSpecHolds` | `SizesBelowWrap` |
| `ItcHeldOwned`, `PoolHeldOwned`: `... => []HeldIsOwned` | none |
| `ItcMutexWakeups`, `PoolMutexWakeups`: `... => []NoLostWakeup` | `Closed` |
| `ItcTasksKept`, `PoolTasksKept`: `... => []ExactlyOneQueue` | `Closed` |
| `ItcHighestRuns`, `PoolHighestRuns`: `... => []HighestRuns` | `Closed` and `HeapOrdered` |

`SyncProofs` shows once that the invariants of mutexes and semaphores (`Owned`, `Counted`)
survive in the composition (`SyncKept`), and what the calls of a function can do to its
caller: a call leaves the function's stage alone until it returns, enters on a known object
and never moves another task. On this rest `ItcControl` and `PoolControl`: which call a task
is inside tells where its function goes on (`ItcCalls`, `PoolCalls`), and a task between
acquire and release of the object's mutex holds it (`InsideHolds`). With `Owned` no two
tasks are inside, which is all the rest needs of the interleaving.

For the message queue, `SlotsFound` says that the slot a search has found is still free, or
still addressed to the reader, when it is used; `Fresh` that messages being sent are new and
differ. `BufferIntegrity` follows step by step. Under `Guarded`, a reader's message stays in
the buffer until the reader itself clears it (`ReadersFind`). `NoPhantomSlot` is
strengthened by the finiteness of the sets it counts (`SlotsCounted`); each step moves one
task in or out of one set.

For the pool, `ListEnds` says that the free list is a finite sequence of different blocks
that ends at something that is no block. The functions follow it through `next` by a
recursive function of the model (`Chain`); `ListChain` proves, with the least number of steps
at which they would differ (`LeastNumber`), that `Chain` enumerates that sequence.
`ItemsKnown` says what the pointer in a call's hand is, `PlacesDiffer` that no block is in
two of the places list, hand and task, `SomePlace` that it is in one. The adds of
`OS_InitMempool`, a fold, are shown to leave every block in the list (`AddedLinks`,
`PoolInitList`). `BlocksCounted` strengthens `NoPhantomBlock` by the deallocations that have
put their block back and not yet told the semaphore.

The refinements follow from the same invariants. In `ItcImplementsMailbox` what has to be
shown of a search is that it decides for the whole queue: the holder of the mutex is the
only one that addresses or clears slots (`InsideHolds`), so a send that found a place finds
fewer messages than slots when it stores, and a read that found nothing has looked at the
queue as it still is. In `PoolImplementsAllocator` the move of `head` takes the first block
off the sequence of `ListEnds` or puts the block in hand before it, and a null head means
that the sequence is empty.

The remaining rows say that the parts keep their promises in the composition. `SyncStep`
describes a step of any composition: of the kernel, of a task outside the objects, of a
mutex or semaphore call, the start of one, or one that touches neither. For the mutexes
every such step is a step of `Mutex` or stands aside (`Aside`): it changes neither
owner, counter nor holders, nor the waiting queue of a mutex (`QueuesAside`), and the check
code a task has read is one it could have read in `Mutex` too. For the semaphores the other
steps change no counter and no call (`SilentCounting`). For the kernel every step keeps the
running queue sorted: a call leaves it and the priorities alone or executes the SVC of
`OS_Wait` or `OS_Notify` (`CallTouches`). Nothing there uses `Stray`
(the runs set it to the empty set, so that `HeldIsOwned` and `NoLostWakeup` are about every
mutex): the functions release only what they hold (`ReleasesHeld`). Nor does
`NoLostWakeup` need `Recursive`: what a task holds it holds inside a call of the
object (`ItcHeldInside`, `PoolHeldInside`), where it acquires nothing else, so the
acquires of the functions are of mutexes their task does not hold (`AcquiresNew`).

`ScriptProofs` proves about `ScriptSpec` of `Script`, for every list of demonstrations: any
number of tasks, with any priorities, running any programs of `Statements` over all
objects, sleeps, waits and notifications.

| theorem | assumptions |
| --- | --- |
| `ScriptMutexesAreLocks`: `ScriptSpec => LockSpecHolds` | none |
| `ScriptSemaphoresCount`: `ScriptSpec => SemaphoreSpecHolds` | `SizesBelowWrap` |
| `ScriptHeldOwned`: `ScriptSpec => []HeldIsOwned` | none |
| `ScriptTasksKept`: `ScriptSpec => []ExactlyOneQueue` | `Closed` |
| `ScriptMutexWakeups`: `ScriptSpec /\ [][AcquiresNew]_scriptVars => []NoLostWakeup` | `Closed` and `Awaited \cap Mutexes = {}` |

They rest on `ScriptSyncStep`: with tasks that follow their program (`InProgram`), every step
is a `SyncStep` in which `OS_Wait` and `OS_Notify` are called about the objects the programs
name (`Awaited`). A program that waits in the queue of a mutex on its own account could take
the notification meant for a task in `OS_MutexAquire`, and one that acquires a mutex its
task holds loops with the mutex in hand; hence the assumptions of the last row
(`AcquiresNew`: an acquire starts only on a mutex that its task does not hold). The
demonstrations satisfy all of these. `SemNoLostWakeup` is not among the promises kept in
compositions: the functions also call `OS_SemaphoreWait`, whose callers share the queue
(see below).

The assumptions are about the instance, not the code's states: `Closed`, `Recursive`,
`OverRelease`, `Guarded` and `SleepAcrossWrap` say which calls the tasks make. Every one of
them is the case in some run. `MutexStray.cfg`, `MutexRecursive.cfg`, `ItcEmptyRead.cfg`,
`SemWrap.cfg` and `KernelExit.cfg` show what happens to the
mutexes of `Stray`, and without `~Recursive`, `Guarded`, `SizesBelowWrap` and `Closed`.

Only model-checked:

- `KernelSpecHolds`, that the stores of `SleepHeap` add up to the steps of `Kernel`;
- `SleeperWakes`, `SemWaiterServed`, `AllDelivered` and `DemoEnds`, because
  liveness is out of the prover's reach;
- what the demonstrations are announced to show (`MuxInTurn`, `BasicInPriorityOrder`,
  `NotifiedInTurn`, `EarlyMessagesLast`, `ReceiverWaitsFirst`, `FreedBlockReused`): the
  outcome of fixed programs, which depends on their priorities and on sleeps that are long
  compared with the calls (`MaxBusyTicks`), and which the finite run decides in full.

`BufferIntegrity`, `BlockInOnePlace` and the refinements of the mailbox and the allocator are
proved of `ItcSpec` and `PoolSpec`, not of the programs of `ScriptSpec` that use both.

## Not modelled

The state flags of a TCB, which are set and never cleared nor read, and `task.c`, which
would read them and is not called. The round-robin scheduler, its demonstration
(`srr_demonstration.c`, which `main()` does not call) and `sleep.c`, which are commented
out or without effect. Stack frames, register saving and the SVC table. Logging, board
set-up and vendored start-up code. The size of a message: `memcpy` copies `dataSz` bytes
to and from a field of four. The exclusive pair of `OS_SemaphoreGetNResources`, which
reads and writes back a field that never changes.

The loads and stores of a heap operation, except in `SleepHeap`, where tasks sleep and do
nothing else. The models of the kernel's other calls and of the objects assume that no
SysTick falls inside a heap operation of `OS_Sleep`, or end there (see Bounds);
`tcb_priority_queue.h:17-20` asks that nothing interfere with the array, which `OS_Sleep` does
not ensure. `SleepHeap` takes the loads and stores in the order of the C text; a compiler
may order and merge them otherwise, so the three configurations show interruptions that the
text allows, not every one that a build does.

A task in `OS_SemaphoreWait` shares its queue with those that acquire, and may take the
notification of a release (`semaphore.c:73`). The message queue and the pool call it and
are modelled with it; `sem` and `sem_live` have acquirers only, since with tasks that
merely wait `SemNoLostWakeup` does not hold.

## Plan

1. Done: `TcbQueue`, `TcbQueueSpec`, `TcbHeap`, `Kernel`, `LockSpec`, `Mutex`, `KernelProofs`
   and `MutexProofs`.
2. Done: `SemaphoreSpec`, `Semaphore`, `SyncCalls`, `ItcQueue`, `MemPool`, `Script`,
   `Demos` and `SemaphoreProofs`.
3. Done: `SyncProofs`, `ItcProofs`, `PoolProofs`, and in the earlier proof modules wakeups,
   counts and times.
4. Done: `HeapProofs`.
5. Done: `MailboxSpec` and `AllocatorSpec`, with proofs that the calls implement them, the
   parts' promises in the compositions, and `ScriptProofs`.
6. Done: `SleepHeap`; `NoLostWakeup` says who will notify.
7. Left: a proof that `SleepHeap` implements `Kernel` while no SysTick falls inside an
   operation; `BufferIntegrity` and `BlockInOnePlace` for programs that use the queue
   and the pool at once.
