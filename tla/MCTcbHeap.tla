----------------------------- MODULE MCTcbHeap -----------------------------
(***************************************************************************)
(* TcbHeap for TLC: tasks are interchangeable.                             *)
(***************************************************************************)
EXTENDS TcbHeap, TLC

TaskSymmetry == Permutations(Tasks)

=============================================================================
