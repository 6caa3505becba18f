----------------------------- MODULE MCMemPool -----------------------------
(***************************************************************************)
(* MemPool for TLC: one pool of one or two blocks.                         *)
(***************************************************************************)
EXTENDS MemPool

CONSTANTS t1, t2, t3

OneBlock == [s \in Semaphores |-> 1]
TwoBlocks == [s \in Semaphores |-> 2]

\* t3 outranks t2, which outranks t1.
LastFirst == [t \in Tasks |-> CASE t = t1 -> {3} [] t = t2 -> {2} [] OTHER -> {1}]

\* t1 outranks t2.
FirstFirst == [t \in Tasks |-> IF t = t1 THEN {1} ELSE {2}]

=============================================================================
