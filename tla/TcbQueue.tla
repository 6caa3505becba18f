------------------------------ MODULE TcbQueue ------------------------------
(***************************************************************************)
(* A TCB priority queue (OS/tcb_priority_queue.c) as its callers see it:   *)
(* the set of tasks it holds and the task at its front.  The array heap    *)
(* behind it is modelled in TcbHeap, which is checked to implement this    *)
(* view.  The kernel and the objects built on it use these operators.      *)
(*                                                                         *)
(* An operation that the heap's layout makes the caller unable to predict  *)
(* (which of several tasks comes to the front) is the set of the queues it *)
(* may leave behind.                                                       *)
(***************************************************************************)
EXTENDS Naturals, FiniteSets

CONSTANTS
  Tasks,        \* the task control blocks of the application
  Nil,          \* the null pointer
  QueueSlots,   \* MAX_TASKS: the length of every store array
  HeapOrdered   \* TRUE: the front has the lowest key (at most 4 tasks, see
                \*   TcbHeap); FALSE: the order the heap really guarantees

ASSUME QueueAssumption ==
  /\ Nil \notin Tasks
  /\ QueueSlots \in Nat \ {0}
  /\ HeapOrdered \in BOOLEAN

Queue == [tasks : SUBSET Tasks, front : Tasks \cup {Nil}]

EmptyQueue == [tasks |-> {}, front |-> Nil]

\* The front of a queue is one of its tasks; only an empty queue has none.
WellFormed(q) == IF q.tasks = {} THEN q.front = Nil ELSE q.front \in q.tasks

\* No task of the queue has a lower key than the one at its front.
Sorted(q, key) == \A t \in q.tasks : key[q.front] <= key[t]

Full(q) == Cardinality(q.tasks) >= QueueSlots

\* The tasks HeapDown may leave at the root of a heap that holds S.
Fronts(S, key) ==
  IF S = {} THEN {Nil}
  ELSE {f \in S : HeapOrdered => \A t \in S : key[f] <= key[t]}

\* The tasks that may be at the root once HeapUp has placed t.  Only a task
\* with a lower key displaces the root, and it always does in a sorted heap.
FrontsWith(q, t, key) ==
  IF q.tasks = {} THEN {t}
  ELSE IF key[t] >= key[q.front] THEN {q.front}
  ELSE IF HeapOrdered THEN {t}
  ELSE {t, q.front}

\* OS_TCBPriorityQueueInsert: a full queue silently drops the task.
Inserted(q, t, key) ==
  IF Full(q) THEN {q}
  ELSE {[tasks |-> q.tasks \cup {t}, front |-> f] : f \in FrontsWith(q, t, key)}

\* OS_TCBPriorityQueueRemove.  OS_TCBPriorityQueueExtract of a queue that is
\* not empty is the removal of its front.
Removed(q, t, key) ==
  IF t \notin q.tasks THEN {q}
  ELSE {[tasks |-> q.tasks \ {t}, front |-> f] :
          f \in IF t = q.front THEN Fronts(q.tasks \ {t}, key) ELSE {q.front}}

=============================================================================
