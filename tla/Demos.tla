------------------------------- MODULE Demos -------------------------------
(***************************************************************************)
(* The demonstrations of Demonstrations/ that main() can build with the    *)
(* fixed-priority scheduler, and what demonstration_tasks.h says they      *)
(* show.  One unit of sleeping time stands for 500 ticks.                  *)
(***************************************************************************)
EXTENDS Script

CONSTANTS
  T1, T2, T3, T4, T5, T6,  \* the tasks; most demonstrations have two or three
  Mux,                     \* the mutex of DEMO_MUX and DEMO_FPS_BASIC
  WaitQueue                \* _fpsPriorityQueue1

\* OS_InitialiseTCB and OS_AddTask of a task.
AddTask(t, level, calls_) == [task |-> t, priority |-> level, program |-> calls_]

Locked == <<Aquire(Mux), Release(Mux)>>

-----------------------------------------------------------------------------
\* DEMO_MUX

DemoMuxTask1 == <<Aquire(Mux), Sleep(12), Release(Mux)>>
DemoMuxTask2 == <<Sleep(8)>> \o Locked
DemoMuxTask3 == <<Sleep(2)>> \o Locked

DemoInitMuxTasks ==
  <<AddTask(T1, 1, DemoMuxTask1),
    AddTask(T2, 1, DemoMuxTask2),
    AddTask(T3, 2, DemoMuxTask3)>>

\* DEMO_FPS_BASIC: the functions of the six tasks are alike.

DemoFPSTask == Repeat(5, Locked)

DemoInitFPSBasic ==
  <<AddTask(T1, 1, DemoFPSTask), AddTask(T2, 3, DemoFPSTask),
    AddTask(T3, 2, DemoFPSTask), AddTask(T4, 5, DemoFPSTask),
    AddTask(T5, 4, DemoFPSTask), AddTask(T6, 1, DemoFPSTask)>>

\* DEMO_FPS_SLEEP

DemoFPSSleepTask1 == <<Sleep(20)>>
DemoFPSSleepTask2 == <<Sleep(10)>>
DemoFPSSleepTask3 == <<Sleep(2)>>

DemoInitFPSSleep ==
  <<AddTask(T1, 1, DemoFPSSleepTask1),
    AddTask(T2, 1, DemoFPSSleepTask2),
    AddTask(T3, 1, DemoFPSSleepTask3)>>

\* DEMO_FPS_WAIT

DemoFPSWaitTask1 == <<Wait(WaitQueue)>>
DemoFPSWaitTask2 == <<Wait(WaitQueue)>>
DemoFPSWaitTask3 == <<Sleep(10), Notify(WaitQueue), Sleep(10), Notify(WaitQueue)>>

DemoInitFPSWait ==
  <<AddTask(T1, 1, DemoFPSWaitTask1),
    AddTask(T2, 1, DemoFPSWaitTask2),
    AddTask(T3, 1, DemoFPSWaitTask3)>>

\* DEMO_QUEUE_READ_SINGLE_MSG

DemoITCQueueSingleReadSenderTask == <<Send(T2)>>
DemoITCQueueSingleReadReceiverTask == <<ReadOne>>

DemoInitQueueSingle ==
  <<AddTask(T1, 1, DemoITCQueueSingleReadSenderTask),
    AddTask(T2, 2, DemoITCQueueSingleReadReceiverTask)>>

\* DEMO_QUEUE_FULL

DemoITCQueueFullTask == Repeat(5, <<Send(T2)>>) \o Repeat(15, <<Send(T3)>>)
DemoITCQueueFullReceiverTask1 == <<ReadAll>>
DemoITCQueueFullReceiverTask2 == <<ReadAll>>

DemoInitQueueFull ==
  <<AddTask(T1, 1, DemoITCQueueFullTask),
    AddTask(T2, 2, DemoITCQueueFullReceiverTask1),
    AddTask(T3, 3, DemoITCQueueFullReceiverTask2)>>

\* DEMO_QUEUE_EMPTY

DemoITCQueueEmptySenderTask == <<Sleep(6), Send(T2)>>
DemoITCQueueEmptyReceiverTask == <<ReadOne>>

DemoInitQueueEmpty ==
  <<AddTask(T1, 2, DemoITCQueueEmptySenderTask),
    AddTask(T2, 1, DemoITCQueueEmptyReceiverTask)>>

\* DEMO_MP

DemoMPFullTask1 == <<Malloc(1), Malloc(2), Malloc(3), Malloc(4), Malloc(5)>>
DemoMPFullTask2 == <<Sleep(6), Dalloc(1), Sleep(6), Dalloc(3)>>

DemoInitMPTasks ==
  <<AddTask(T1, 1, DemoMPFullTask1), AddTask(T2, 2, DemoMPFullTask2)>>

-----------------------------------------------------------------------------

\* What main() can be built with.
AllDemonstrations ==
  [DEMO_MUX                   |-> DemoInitMuxTasks,
   DEMO_FPS_BASIC             |-> DemoInitFPSBasic,
   DEMO_FPS_SLEEP             |-> DemoInitFPSSleep,
   DEMO_FPS_WAIT              |-> DemoInitFPSWait,
   DEMO_QUEUE_READ_SINGLE_MSG |-> DemoInitQueueSingle,
   DEMO_QUEUE_FULL            |-> DemoInitQueueFull,
   DEMO_QUEUE_EMPTY           |-> DemoInitQueueEmpty,
   DEMO_MP                    |-> DemoInitMPTasks]

-----------------------------------------------------------------------------
\* Properties: what demonstration_tasks.h says the demonstrations show.

\* "Task 2 should gain control of the mutex before Task 3, even though it wakes from
\* sleep after Task 3": no task of the mutex demonstration overtakes another, although
\* Task 1 sleeps while it holds the mutex and both others queue up behind it.
MuxInTurn ==
  demo = "DEMO_MUX" =>
    /\ Mux \in held[T2] => line[T1] = 3
    /\ Mux \in held[T3] => line[T2] = 3 /\ Mux \notin held[T2]

\* "Task 1 and Task 6 have the highest priority [...] Task 3 has the next highest
\* priority [...] followed by Task 2, then Task 5, then Task 4": a task has the mutex
\* only after all those before it have ended, in the order the array heap yields for
\* six tasks, for which it does not keep its order in general.
BasicInPriorityOrder ==
  demo = "DEMO_FPS_BASIC" =>
    \A before, after \in DemoTasks :
      priority[before] < priority[after] /\ held[after] # {} => pc[before] = "exited"

\* Task 3 "notifies Task 1 and subsequently goes back to sleep. Task 1 then completes
\* its execution. After Task 3 has, once again, woken, it notifies Task 2": both have
\* been made to wait before the first notification, Task 1 takes the first and Task 2
\* the second one.
NotifiedInTurn ==
  demo = "DEMO_FPS_WAIT" =>
    /\ line[T3] = 1 /\ T3 \in sleeping.tasks /\ currentTCB = IdleTCB /\ mode = "thread"
         => waiting[WaitQueue].tasks = {T1, T2}
    /\ line[T3] \in {2, 3} => waiting[WaitQueue].tasks = {T2}
    /\ line[T3] = 4 => pc[T1] = "exited" /\ waiting[WaitQueue].tasks = {}

\* "Any messages [...] sent before the message queue first gets full, will be read and
\* outputted after all messages sent after it was first put to sleep": Receiver Task 2
\* gets to the messages the sender stored before it first waited only when it has read
\* all the later ones.
EarlyMessagesLast ==
  [][\A m \in pending \ pending' :
       demo = "DEMO_QUEUE_FULL" /\ m.to = T3 /\ m.id < Resources[QueueSem] =>
         /\ line[T1] = 20
         /\ \A n \in pending : n.id < Resources[QueueSem]]_scriptVars

\* "The Receiver Task attempts to read from the empty message queue and is put into the
\* wait state. The Sender Task then sends a message which notifies the Receiver Task":
\* the receiver waits when the message is stored, and leaves the waiting queue to find it.
ReceiverWaitsFirst ==
  demo = "DEMO_QUEUE_EMPTY" =>
    /\ stage[T1] = "tx_dest" => T2 \in waiting[QueueSem].tasks
    /\ stage[T2] = "rx_lock" /\ line[T1] = 2 /\ T2 \notin waiting[QueueSem].tasks
         => OS_ITCHasMsg(T2)

\* "Task 1 then allocates memory for the p4 pointer (in the same address that was
\* allocated) for p1. This process repeats for another pointer, p5. Instead, however,
\* Task 2 deallocated p3": a task that waited for a block gets the very block whose
\* deallocation woke it, no block has two pointers in use, and in the end all five
\* pointers have a block.
FreedBlockReused ==
  demo = "DEMO_MP" =>
    /\ p[4] \in {Nil, p[1]}
    /\ p[5] \in {Nil, p[3]}
    /\ \A i, j \in 1 .. 3 : i # j /\ p[i] # Nil => p[i] # p[j]
    /\ pc[T1] = "exited" => \A i \in 1 .. 5 : p[i] \in Blocks

\* "This repeats [...] until all messages have been sent": every message is sent, none
\* is dropped although the queue fills up, and every one is read.
AllDelivered ==
  <>[](/\ dropped = {} /\ pending = {}
       /\ demo = "DEMO_QUEUE_FULL" => nextId = 20
       /\ demo \in {"DEMO_QUEUE_READ_SINGLE_MSG", "DEMO_QUEUE_EMPTY"} => nextId = 1)

\* Every task of a demonstration runs to the end of its function: no task is left
\* waiting, for the mutex, a message, a block or a notification.
DemoEnds == <>[](\A t \in DemoTasks : pc[t] = "exited")

=============================================================================
