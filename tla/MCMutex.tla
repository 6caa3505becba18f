------------------------------ MODULE MCMutex ------------------------------
(***************************************************************************)
(* Mutex for TLC: tasks are interchangeable unless their levels differ.    *)
(***************************************************************************)
EXTENDS Mutex, TLC

TaskSymmetry == Permutations(Tasks)

OneLevel == [t \in Tasks |-> {1}]

\* Every task may be added with either of two levels.
TwoLevels == [t \in Tasks |-> {1, 2}]

\* Every task has a level of its own.
DistinctLevels ==
  LET level == CHOOSE f \in [Tasks -> 1 .. Cardinality(Tasks)] :
                 \A t, u \in Tasks : t # u => f[t] # f[u]
  IN [t \in Tasks |-> {level[t]}]

=============================================================================
