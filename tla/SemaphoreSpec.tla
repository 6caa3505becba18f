--------------------------- MODULE SemaphoreSpec ---------------------------
(***************************************************************************)
(* What OS_sem_t promises its callers: a counting semaphore.  A resource   *)
(* leaves it one at a time, only while one is available and only to a task *)
(* that asked; a task that gives one back is refused only if the semaphore *)
(* has all of them already.  Semaphore implements this specification.      *)
(***************************************************************************)
EXTENDS Naturals

CONSTANTS Tasks, Semaphores, Nil, Size

VARIABLES
  available,  \* the resources every semaphore has left
  asking,     \* the semaphore every task wants a resource of, or Nil
  giving      \* the semaphore every task gives a resource back to, or Nil

Init ==
  /\ available = Size
  /\ asking = [t \in Tasks |-> Nil]
  /\ giving = [t \in Tasks |-> Nil]

Idle(t) == asking[t] = Nil /\ giving[t] = Nil

Ask(t, s) ==
  /\ Idle(t)
  /\ asking' = [asking EXCEPT ![t] = s]
  /\ UNCHANGED <<available, giving>>

Take(t, s) ==
  /\ asking[t] = s
  /\ available[s] > 0
  /\ available' = [available EXCEPT ![s] = @ - 1]
  /\ asking' = [asking EXCEPT ![t] = Nil]
  /\ UNCHANGED giving

Offer(t, s) ==
  /\ Idle(t)
  /\ giving' = [giving EXCEPT ![t] = s]
  /\ UNCHANGED <<available, asking>>

Give(t, s) ==
  /\ giving[t] = s
  /\ available[s] < Size[s]
  /\ available' = [available EXCEPT ![s] = @ + 1]
  /\ giving' = [giving EXCEPT ![t] = Nil]
  /\ UNCHANGED asking

Refuse(t, s) ==
  /\ giving[t] = s
  /\ available[s] = Size[s]
  /\ giving' = [giving EXCEPT ![t] = Nil]
  /\ UNCHANGED <<available, asking>>

Next ==
  \E t \in Tasks, s \in Semaphores :
    Ask(t, s) \/ Take(t, s) \/ Offer(t, s) \/ Give(t, s) \/ Refuse(t, s)

Spec == Init /\ [][Next]_<<available, asking, giving>>

=============================================================================
