------------------------------ MODULE LockSpec ------------------------------
(***************************************************************************)
(* What OS_mutex_t promises its callers: a mutex has at most one owner,    *)
(* only a task that asked for it becomes the owner, only while it is free, *)
(* and only the owner frees it.  Mutex implements this specification.      *)
(***************************************************************************)
CONSTANTS Tasks, Mutexes, Nil

VARIABLES
  owner,   \* the owner of every mutex, or Nil
  asking   \* the mutex every task is asking for, or Nil

Init ==
  /\ owner = [m \in Mutexes |-> Nil]
  /\ asking = [t \in Tasks |-> Nil]

Ask(t, m) ==
  /\ asking[t] = Nil
  /\ asking' = [asking EXCEPT ![t] = m]
  /\ UNCHANGED owner

Own(t, m) ==
  /\ asking[t] = m
  /\ owner[m] = Nil
  /\ owner' = [owner EXCEPT ![m] = t]
  /\ UNCHANGED asking

Enter(t, m) ==
  /\ asking[t] = m
  /\ owner[m] = t
  /\ asking' = [asking EXCEPT ![t] = Nil]
  /\ UNCHANGED owner

Leave(t, m) ==
  /\ asking[t] # m
  /\ owner[m] = t
  /\ owner' = [owner EXCEPT ![m] = Nil]
  /\ UNCHANGED asking

Next ==
  \E t \in Tasks, m \in Mutexes :
    Ask(t, m) \/ Own(t, m) \/ Enter(t, m) \/ Leave(t, m)

Spec == Init /\ [][Next]_<<owner, asking>>

=============================================================================
