---------------------------- MODULE MCSleepHeap ----------------------------
(***************************************************************************)
(* SleepHeap for TLC: tasks are interchangeable until they are added.      *)
(***************************************************************************)
EXTENDS SleepHeap, TLC

TaskSymmetry == Permutations(Tasks)

\* Every task may be added with either of two levels.
TwoLevels == [t \in Tasks |-> {1, 2}]

=============================================================================
