------------------------------ MODULE MCDemos ------------------------------
(***************************************************************************)
(* Demos for TLC: a queue of ITC_MAX_MSGS = 10 slots and a pool of         *)
(* DEMO_MP_FULL_N_PACKETS = 3 blocks.                                      *)
(***************************************************************************)
EXTENDS Demos

DemoResources == [s \in Semaphores |-> IF s = QueueSem THEN 10 ELSE 3]

\* The programs say who sends to whom.
NoRoutes == {}

AnyLevel == [t \in Tasks |-> 1 .. 5]

=============================================================================
