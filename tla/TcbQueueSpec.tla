---------------------------- MODULE TcbQueueSpec ----------------------------
(***************************************************************************)
(* What a TCB priority queue promises to the scheduler and to the objects  *)
(* that own one: which tasks it holds and which of them is at its front.   *)
(* TcbHeap implements this specification, and Kernel relies on it through  *)
(* the same operators.                                                     *)
(***************************************************************************)
EXTENDS TcbQueue

CONSTANT Keys  \* the values of the field the queue is ordered by

VARIABLES
  q,    \* the queue
  key   \* ->priority or ->data of every task

Init ==
  /\ q = EmptyQueue
  /\ key \in [Tasks -> Keys]

\* The caller sets the key of a task before it inserts it.
Insert(t, k) ==
  /\ t \notin q.tasks
  /\ key' = [key EXCEPT ![t] = k]
  /\ q' \in Inserted(q, t, key')

\* Extract or Remove.
Take(t) ==
  /\ q' \in Removed(q, t, key)
  /\ UNCHANGED key

\* Only a queue that has lost its order brings another task to the front.
ReSort ==
  /\ ~HeapOrdered
  /\ \E f \in q.tasks :
       /\ key[f] < key[q.front]
       /\ q' = [q EXCEPT !.front = f]
  /\ UNCHANGED key

Next ==
  \/ \E t \in Tasks, k \in Keys : Insert(t, k)
  \/ \E t \in Tasks : Take(t)
  \/ ReSort

Spec == Init /\ [][Next]_<<q, key>>

=============================================================================
