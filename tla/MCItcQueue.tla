----------------------------- MODULE MCItcQueue -----------------------------
(***************************************************************************)
(* ItcQueue for TLC: one queue of one or two slots.                        *)
(***************************************************************************)
EXTENDS ItcQueue

CONSTANTS t1, t2, t3

OneSlot == [s \in Semaphores |-> 1]
TwoSlots == [s \in Semaphores |-> 2]

\* t1 sends to t2.
OneWay == {<<t1, t2>>}

\* t1 and t2 send to t3.
TwoSenders == {<<t1, t3>>, <<t2, t3>>}

\* t1 sends to t2 and t3.
TwoReaders == {<<t1, t2>>, <<t1, t3>>}

\* A chain: t1 sends to t2 and t3, t2 to t3.
Chain == TwoReaders \cup {<<t2, t3>>}

\* Every task may be added with either of two levels.
TwoLevels == [t \in Tasks |-> {1, 2}]

\* t3 outranks t2, which outranks t1.
LastFirst == [t \in Tasks |-> CASE t = t1 -> {3} [] t = t2 -> {2} [] OTHER -> {1}]

\* t3 outranks the others.
ThirdFirst == [t \in Tasks |-> IF t = t3 THEN {1} ELSE {2}]

\* t1 outranks t2.
SenderFirst == [t \in Tasks |-> IF t = t1 THEN {1} ELSE {2}]

\* t2 outranks t1.
ReaderFirst == [t \in Tasks |-> IF t = t1 THEN {2} ELSE {1}]

=============================================================================
