------------------------------- MODULE TcbHeap -------------------------------
(***************************************************************************)
(* The array heap of OS/tcb_priority_queue.c.  Keys change only while a    *)
(* task is outside the queue: TCB.priority is set by OS_AddTask, TCB.data  *)
(* by OS_Sleep, each before the task is inserted.                          *)
(***************************************************************************)
EXTENDS TcbQueue

CONSTANT Keys  \* the values of the field the queue is ordered by

ASSUME HeapAssumption == Keys \subseteq Nat

VARIABLES
  store,   \* queue->store
  length,  \* queue->length
  key,     \* ElementValue of every task: its priority or its data
  peak,    \* history: the greatest length since the queue was last empty
  cut      \* history: a task was removed from behind the front since then

vars == <<store, length, key, peak, cut>>

Slots == 0 .. QueueSlots - 1

Stores == [Slots -> Tasks \cup {Nil}]

ElementValue(s, i) == key[s[i]]

Swap(s, i, j) == [s EXCEPT ![i] = s[j], ![j] = s[i]]

\* The task at index climbs while its key is lower than that of the slot at half
\* its index.
HeapUp(s0, index) ==
  LET up[child \in Slots] ==
        LET parent == child \div 2 IN
          [s \in Stores |->
             IF key'[s[child]] < key'[s[parent]]
               THEN up[parent][Swap(s, child, parent)]
               ELSE s]
  IN up[index][s0]

\* Of a slot and its children 2i + 1 and 2i + 2 the one with the lowest key, of n slots
\* in use.
LeastOf(s, n, parent) ==
  LET left  == 2 * parent + 1
      right == 2 * parent + 2
      min1  == IF left < n /\ ElementValue(s, left) < ElementValue(s, parent)
                 THEN left ELSE parent
  IN IF right < n /\ ElementValue(s, right) < ElementValue(s, min1)
       THEN right ELSE min1

\* Mutant: only the left child is compared.
HeapDownLeftOnly(s0, n, index) ==
  LET down[parent \in Slots] ==
        LET left == 2 * parent + 1 IN
          [s \in Stores |->
             IF left < n /\ ElementValue(s, left) < ElementValue(s, parent)
               THEN down[left][Swap(s, parent, left)]
               ELSE s]
  IN down[index][s0]

\* The task at index sinks below the lesser of its children, in the n slots in use.
HeapDown(s0, n, index) ==
  LET down[parent \in Slots] ==
        [s \in Stores |->
           LET least == LeastOf(s, n, parent) IN
             IF least = parent THEN s ELSE down[least][Swap(s, parent, least)]]
  IN down[index][s0]

\* Mutant: the queue counts as full one slot early.
FullOneEarly == length >= QueueSlots - 1

OS_TCBPriorityQueueFull == length > QueueSlots - 1

OS_TCBPriorityQueueInsert(t, k) ==
  /\ t \notin {store[i] : i \in Slots}
  /\ key' = [key EXCEPT ![t] = k]
  /\ \/ /\ OS_TCBPriorityQueueFull
        /\ UNCHANGED <<store, length, peak, cut>>
     \/ /\ ~OS_TCBPriorityQueueFull
        /\ store' = HeapUp([store EXCEPT ![length] = t], length)
        /\ length' = length + 1
        /\ peak' = IF length' > peak THEN length' ELSE peak
        /\ UNCHANGED cut

\* Mutant: the slot of the task that moves is not cleared.
VacateKeepsLast(i) ==
  LET last == length - 1 IN
    /\ store' = HeapDown([store EXCEPT ![i] = store[last]], last, i)
    /\ length' = last
    /\ peak' = IF last = 0 THEN 0 ELSE peak
    /\ cut' = (last # 0 /\ (cut \/ i # 0))
    /\ UNCHANGED key

\* The last task takes the vacated slot and sinks from there.
Vacate(i) ==
  LET last == length - 1 IN
    /\ store' = HeapDown([[store EXCEPT ![i] = store[last]]
                            EXCEPT ![last] = Nil], last, i)
    /\ length' = last
    /\ peak' = IF last = 0 THEN 0 ELSE peak
    /\ cut' = (last # 0 /\ (cut \/ i # 0))
    /\ UNCHANGED key

OS_TCBPriorityQueueExtract == length > 0 /\ Vacate(0)

Search(t) == {i \in 0 .. length - 1 : store[i] = t}

OS_TCBPriorityQueueRemove(t) == \E i \in Search(t) : Vacate(i)

OS_TCB_PriorityQueueReSort ==
  /\ store' = HeapDown(store, length, 0)
  /\ UNCHANGED <<length, key, peak, cut>>

Init ==
  /\ store = [i \in Slots |-> Nil]
  /\ length = 0
  /\ key \in [Tasks -> Keys]
  /\ peak = 0
  /\ cut = FALSE

Next ==
  \/ \E t \in Tasks, k \in Keys : OS_TCBPriorityQueueInsert(t, k)
  \/ OS_TCBPriorityQueueExtract
  \/ \E t \in Tasks : OS_TCBPriorityQueueRemove(t)
  \/ OS_TCB_PriorityQueueReSort

Spec == Init /\ [][Next]_vars

-----------------------------------------------------------------------------
\* Properties.

\* The used slots hold different tasks and every other slot is null: no
\* operation loses a task, doubles it or leaves a hole before length.
StoreOK ==
  /\ length \in 0 .. QueueSlots
  /\ store \in Stores
  /\ \A i \in Slots : (store[i] = Nil) <=> (i >= length)
  /\ \A i, j \in 0 .. length - 1 : store[i] = store[j] => i = j

\* "the highest priority task will always be at element 0"
\* (tcb_priority_queue.c): no task of the queue has a lower key than the front.
FrontIsMin ==
  \A i \in 1 .. length - 1 : key[store[0]] <= key[store[i]]

\* HeapUp and HeapDown disagree on which slot is the parent of which, so the
\* front is the minimum only while the array is short: up to four tasks, or five
\* if only the front is ever taken, as in a sleeping or a waiting queue.
ShortQueueInOrder == peak <= 4 \/ (peak <= 5 /\ ~cut) => FrontIsMin

\* The queue that the array stands for.
AbstractQueue ==
  [tasks |-> {store[i] : i \in 0 .. length - 1},
   front |-> IF length = 0 THEN Nil ELSE store[0]]

\* The array implements the queue of TcbQueueSpec: every operation moves the
\* task it should and brings to the front a task TcbQueueSpec allows there.
Q == INSTANCE TcbQueueSpec WITH q <- AbstractQueue

QueueSpec == Q!Spec

=============================================================================
