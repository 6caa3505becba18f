----------------------------- MODULE SleepHeap -----------------------------
(***************************************************************************)
(* The heap operations of OS_Sleep, store by store.                        *)
(*                                                                         *)
(* Kernel takes OS_TCBPriorityQueueRemove and OS_TCBPriorityQueueInsert as *)
(* one step each.  Every other caller runs them in handler mode;           *)
(* FPS_TaskSleepCallback runs them in thread mode, where a SysTick may     *)
(* fall between any two stores.  Here the running and the sleeping queue   *)
(* are the arrays of tcb_priority_queue.c, and tasks do nothing but sleep. *)
(*                                                                         *)
(* Without a SysTick inside an operation (TickInHeap = FALSE) the module   *)
(* implements Kernel.  With one, the handlers read and change an array     *)
(* that is half updated.  Every mention of queue->length and of a slot is  *)
(* a load where it stands; the C code allows the compiler other orders.    *)
(***************************************************************************)
EXTENDS Kernel

VARIABLES
  heap,  \* _runningTasksQueue and _sleepingTasksQueue: store and length
  op     \* the heap operation every task is inside, and its registers

heapVars     == <<heap, op>>
sleepingVars == <<vars, heapVars>>

\* ElementValue of the two queues, for a null pointer too.
ByPriority == [t \in Tasks \cup {Nil} |-> IF t = Nil THEN NullData ELSE priority[t]]
ByData     == [t \in Tasks \cup {Nil} |-> IF t = Nil THEN NullData ELSE data[t]]

R == INSTANCE TcbHeap WITH
  store <- heap.running.store, length <- heap.running.length, key <- ByPriority,
  Keys <- Nat, peak <- 0, cut <- FALSE

S == INSTANCE TcbHeap WITH
  store <- heap.sleeping.store, length <- heap.sleeping.length, key <- ByData,
  Keys <- Nat, peak <- 0, cut <- FALSE

EmptyHeap == [store |-> [i \in 0 .. QueueSlots - 1 |-> Nil], length |-> 0]

Held(h) == {h.store[i] : i \in 0 .. h.length - 1} \ {Nil}

Peek(h) == IF h.length = 0 THEN Nil ELSE h.store[0]

QueueOf(h) == [tasks |-> Held(h), front |-> Peek(h)]

\* The queues of Kernel are the arrays whenever an operation is complete.
Complete ==
  /\ running'  = QueueOf(heap'.running)
  /\ sleeping' = QueueOf(heap'.sleeping)

-----------------------------------------------------------------------------
\* Handler mode: an operation is not interrupted.

\* Insert into the running queue, once priority' is known.
Readied(t) ==
  LET h == heap.running IN
    IF h.length > QueueSlots - 1 THEN h
    ELSE [store  |-> R!HeapUp([h.store EXCEPT ![h.length] = t], h.length),
          length |-> h.length + 1]

\* The sleeping queue without its front.
FrontExtracted ==
  LET h    == heap.sleeping
      last == h.length - 1
  IN [store  |-> S!HeapDown([[h.store EXCEPT ![0] = h.store[last]]
                               EXCEPT ![last] = Nil], last, 0),
      length |-> last]

AddTask(new, level) ==
  /\ mode = "boot"
  /\ pc[new] = "dormant"
  /\ priority' = [priority EXCEPT ![new] = level]
  /\ heap' = [heap EXCEPT !.running = Readied(new)]
  /\ Complete
  /\ exclusive' = FALSE
  /\ Goto(new, "user")
  /\ UNCHANGED <<currentTCB, mode, timeVars, waiting, checkCode, arg, check,
                 calls, op>>

\* SysTick outside of the heap operations, or anywhere.
Tick ==
  /\ currentTCB \in Tasks => TickInHeap \/ op[currentTCB].at = "out"
  /\ SysTick_Handler
  /\ UNCHANGED heapVars

\* UpdateSleepingTasks compares with the word behind a null pointer if the front
\* is null.
FrontDue ==
  /\ mode = "waking" \/ (mode = "pendsv" /\ heap.sleeping.length # 0)
  /\ ticks > ByData[Peek(heap.sleeping)]

Wake ==
  /\ FrontDue
  /\ Peek(heap.sleeping) # Nil
  /\ LET t == Peek(heap.sleeping) IN
       /\ data' = [data EXCEPT ![t] = 0]
       /\ UNCHANGED priority
       /\ heap' = [running |-> Readied(t), sleeping |-> FrontExtracted]
  /\ Complete
  /\ mode' = "waking"
  /\ UNCHANGED <<currentTCB, exclusive, ticks, owed, waiting, checkCode,
                 taskVars, op>>

WakeNull ==
  /\ FrontDue
  /\ Peek(heap.sleeping) = Nil
  /\ mode' = "fault"
  /\ UNCHANGED <<currentTCB, exclusive, timeVars, queueVars, checkCode,
                 priority, taskVars, heapVars>>

Switch ==
  /\ mode \in {"pendsv", "waking"}
  /\ ~FrontDue
  /\ currentTCB' = IF Peek(heap.running) = Nil THEN IdleTCB ELSE Peek(heap.running)
  /\ mode' = "thread"
  /\ exclusive' = FALSE
  /\ UNCHANGED <<timeVars, queueVars, checkCode, priority, taskVars, heapVars>>

-----------------------------------------------------------------------------
\* Thread mode: the two operations of FPS_TaskSleepCallback.  A record of op says
\* which step comes next and what the registers hold: i is the index a loop is at,
\* n a length that was loaded or a child's index, temp the task that is swapped.

NoOp == [at |-> "out", i |-> 0, n |-> 0, temp |-> Nil]

\* Task t is at a step of the operation that Kernel's step label stands for.
Inside(t, label, at) ==
  /\ Executing(t, label)
  /\ op[t].at = at
  /\ UNCHANGED <<cpuVars, timeVars, waiting, checkCode, priority, arg, check, calls>>

Continue(t, reg) ==
  /\ op' = [op EXCEPT ![t] = reg]
  /\ UNCHANGED <<pc, running, sleeping>>

Finish(t, label) ==
  /\ op' = [op EXCEPT ![t] = NoOp]
  /\ Goto(t, label)
  /\ UNCHANGED heap
  /\ Complete

\* Search, and the load of --(queue->length).
RemoveSearch(t) ==
  /\ Inside(t, "sleep_remove", "out")
  /\ \/ t \notin Held(heap.running) /\ Finish(t, "sleep_insert")
     \/ \E i \in 0 .. heap.running.length - 1 :
          /\ heap.running.store[i] = t
          /\ \A j \in 0 .. i - 1 : heap.running.store[j] # t
          /\ Continue(t, [NoOp EXCEPT !.at = "rm_length", !.i = i,
                                      !.n = heap.running.length - 1])
          /\ UNCHANGED heap

\* Its store.
RemoveLength(t) ==
  /\ Inside(t, "sleep_remove", "rm_length")
  /\ heap' = [heap EXCEPT !.running.length = op[t].n]
  /\ Continue(t, [op[t] EXCEPT !.at = "rm_move"])

\* The last task takes the slot of t.
RemoveMove(t) ==
  /\ Inside(t, "sleep_remove", "rm_move")
  /\ heap' = [heap EXCEPT !.running.store[op[t].i] = heap.running.store[op[t].n]]
  /\ Continue(t, [op[t] EXCEPT !.at = "rm_clear"])

RemoveClear(t) ==
  /\ Inside(t, "sleep_remove", "rm_clear")
  /\ heap' = [heap EXCEPT !.running.store[heap.running.length] = Nil]
  /\ Continue(t, [op[t] EXCEPT !.at = "rm_sift"])

\* Mutant: HeapDown is left out.
RemoveUnsifted(t) ==
  /\ Inside(t, "sleep_remove", "rm_sift")
  /\ Finish(t, "sleep_insert")

\* A pass of HeapDown: the comparisons and the first of its two stores.
RemoveSift(t) ==
  /\ Inside(t, "sleep_remove", "rm_sift")
  /\ LET h     == heap.running
         i     == op[t].i
         least == R!LeastOf(h.store, h.length, i)
     IN \/ least = i /\ Finish(t, "sleep_insert")
        \/ /\ least # i
           /\ heap' = [heap EXCEPT !.running.store[least] = h.store[i]]
           /\ Continue(t, [op[t] EXCEPT !.at = "rm_swap", !.n = least,
                                        !.temp = h.store[least]])

RemoveSwap(t) ==
  /\ Inside(t, "sleep_remove", "rm_swap")
  /\ heap' = [heap EXCEPT !.running.store[op[t].i] = op[t].temp]
  /\ Continue(t, [op[t] EXCEPT !.at = "rm_sift", !.i = op[t].n])

\* The test for a full queue, and the load of (queue->length)++.
InsertTest(t) ==
  /\ Inside(t, "sleep_insert", "out")
  /\ \/ heap.sleeping.length > QueueSlots - 1 /\ Finish(t, "sleep_yield")
     \/ /\ heap.sleeping.length <= QueueSlots - 1
        /\ Continue(t, [NoOp EXCEPT !.at = "in_length", !.n = heap.sleeping.length])
        /\ UNCHANGED heap

InsertLength(t) ==
  /\ Inside(t, "sleep_insert", "in_length")
  /\ heap' = [heap EXCEPT !.sleeping.length = op[t].n + 1]
  /\ Continue(t, [op[t] EXCEPT !.at = "in_store"])

\* HeapUp starts from queue->length - 1, and returns at once if there is no other
\* slot.
InsertStore(t) ==
  /\ Inside(t, "sleep_insert", "in_store")
  /\ heap' = [heap EXCEPT !.sleeping.store[op[t].n] = t]
  /\ LET n == heap.sleeping.length IN
       Continue(t, [op[t] EXCEPT !.at = "in_sift", !.i = IF n = 0 THEN 0 ELSE n - 1])

\* A pass of HeapUp: the comparison and the first of its two stores.
InsertSift(t) ==
  /\ Inside(t, "sleep_insert", "in_sift")
  /\ LET s      == heap.sleeping.store
         i      == op[t].i
         parent == i \div 2
     IN \/ S!ElementValue(s, i) >= S!ElementValue(s, parent) /\ Finish(t, "sleep_yield")
        \/ /\ S!ElementValue(s, i) < S!ElementValue(s, parent)
           /\ heap' = [heap EXCEPT !.sleeping.store[parent] = s[i]]
           /\ Continue(t, [op[t] EXCEPT !.at = "in_swap", !.temp = s[parent]])

InsertSwap(t) ==
  /\ Inside(t, "sleep_insert", "in_swap")
  /\ heap' = [heap EXCEPT !.sleeping.store[op[t].i] = op[t].temp]
  /\ Continue(t, [op[t] EXCEPT !.at = "in_sift", !.i = op[t].i \div 2])

-----------------------------------------------------------------------------

HeapInit ==
  /\ Init
  /\ heap = [running |-> EmptyHeap, sleeping |-> EmptyHeap]
  /\ op = [t \in Tasks |-> NoOp]

HeapHandlers ==
  \/ \E new \in Tasks : \E level \in Levels[new] : AddTask(new, level)
  \/ (OS_Start \/ IdleSchedule) /\ UNCHANGED heapVars
  \/ Tick
  \/ Wake
  \/ WakeNull
  \/ Switch

HeapStep(t) ==
  \/ (SleepCall(t) \/ SleepStamp(t) \/ SleepStrex(t) \/ SleepYield(t))
       /\ UNCHANGED heapVars
  \/ RemoveSearch(t) \/ RemoveLength(t) \/ RemoveMove(t) \/ RemoveClear(t)
  \/ RemoveSift(t) \/ RemoveSwap(t)
  \/ InsertTest(t) \/ InsertLength(t) \/ InsertStore(t)
  \/ InsertSift(t) \/ InsertSwap(t)

HeapNext == HeapHandlers \/ \E t \in Tasks : HeapStep(t)

HeapSpec == HeapInit /\ [][HeapNext]_sleepingVars

-----------------------------------------------------------------------------
\* Properties.

\* While no SysTick falls inside a heap operation of OS_Sleep, the loads and
\* stores of the arrays add up to the single steps of Kernel: every operation
\* takes out or puts in the task it should and brings a task of lowest key to the
\* front, and SysTicks between the operations wake and dispatch the tasks that
\* Kernel says.
KernelSpecHolds == Spec

\* "... at which point it is moved back into _runningTasksQueue so it can be
\* scheduled and executed again" (fixedPriorityScheduler.c): a task that is not
\* inside OS_Sleep is in one of the two arrays, or another one is moving them.
WokenTaskKept ==
  mode = "thread" /\ (\A u \in Tasks : op[u].at = "out") =>
    \A t \in Tasks :
      pc[t] = "user" => t \in Held(heap.running) \cup Held(heap.sleeping)

\* "The _runningTasksQueue ensures the highest-priority tasks will always be at
\* the front" (fixedPriorityScheduler.c): none of its tasks outranks the one that
\* runs.
FrontOutranks ==
  mode = "thread" /\ currentTCB \in Held(heap.running) =>
    \A t \in Held(heap.running) : priority[currentTCB] <= priority[t]

\* "The _sleepingTasksQueue ensures the task with the lowest time left to sleep is
\* always at the front" (fixedPriorityScheduler.c): once PendSV has looked at a
\* task in front, nobody but a task that has just gone to sleep is overdue.
NoneOverdue ==
  mode = "thread" /\ Peek(heap.sleeping) # Nil =>
    \A t \in Held(heap.sleeping) : ticks <= data[t] \/ t = currentTCB

=============================================================================
