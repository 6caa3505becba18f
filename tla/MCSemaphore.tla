---------------------------- MODULE MCSemaphore ----------------------------
(***************************************************************************)
(* Semaphore for TLC: tasks are interchangeable unless their levels differ.*)
(***************************************************************************)
EXTENDS Semaphore, TLC

TaskSymmetry == Permutations(Tasks)

One == [s \in Semaphores |-> 1]
Two == [s \in Semaphores |-> 2]
AllCounterHolds == [s \in Semaphores |-> UIntMax]

OneLevel == [t \in Tasks |-> {1}]

\* Every task may be added with either of two levels.
TwoLevels == [t \in Tasks |-> {1, 2}]

\* Every task has a level of its own.
DistinctLevels ==
  LET level == CHOOSE f \in [Tasks -> 1 .. Cardinality(Tasks)] :
                 \A t, u \in Tasks : t # u => f[t] # f[u]
  IN [t \in Tasks |-> {level[t]}]

=============================================================================
