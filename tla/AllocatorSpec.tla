--------------------------- MODULE AllocatorSpec ---------------------------
(***************************************************************************)
(* What a pool of OS/memory.c promises the tasks that share it: a set of   *)
(* free blocks.  A call takes effect in one step between its start and its *)
(* return.  An allocation takes a block out of the set, any of them; a     *)
(* block that is given back is in the set again.  Only if the set is empty *)
(* is an allocation given NoBlock, which is no block of the pool.  MemPool *)
(* implements this specification.                                          *)
(***************************************************************************)
CONSTANTS
  Tasks, Blocks, Nil,
  NoBlock,     \* what an allocation is given when there is no block
  Allocators   \* the tasks that allocate

VARIABLES
  free,    \* the free blocks
  owned,   \* the blocks every task has been given
  phase,   \* how far the call of every task is, or "idle"
  hand     \* the block that is on its way to or from every task, or Nil

allocVars == <<free, owned, phase, hand>>

Init ==
  /\ free = Blocks
  /\ owned = [t \in Tasks |-> {}]
  /\ phase = [t \in Tasks |-> "idle"]
  /\ hand = [t \in Tasks |-> Nil]

Moves(t, from, to) ==
  /\ phase[t] = from
  /\ phase' = [phase EXCEPT ![t] = to]

Ask(t) ==
  /\ t \in Allocators
  /\ Moves(t, "idle", "asking")
  /\ UNCHANGED <<free, owned, hand>>

Grant(t) ==
  /\ Moves(t, "asking", "granted")
  /\ \E b \in free :
       /\ free' = free \ {b}
       /\ hand' = [hand EXCEPT ![t] = b]
  /\ UNCHANGED owned

Refuse(t) ==
  /\ Moves(t, "asking", "granted")
  /\ free = {}
  /\ hand' = [hand EXCEPT ![t] = NoBlock]
  /\ UNCHANGED <<free, owned>>

Take(t) ==
  /\ Moves(t, "granted", "idle")
  /\ owned' = [owned EXCEPT ![t] = @ \cup {hand[t]}]
  /\ hand' = [hand EXCEPT ![t] = Nil]
  /\ UNCHANGED free

\* The block need not have been given to the task that gives it back.
GiveBack(t, u, b) ==
  /\ b \in owned[u] \cap Blocks
  /\ Moves(t, "idle", "returning")
  /\ owned' = [owned EXCEPT ![u] = @ \ {b}]
  /\ hand' = [hand EXCEPT ![t] = b]
  /\ UNCHANGED free

Put(t) ==
  /\ Moves(t, "returning", "returned")
  /\ free' = free \cup {hand[t]}
  /\ hand' = [hand EXCEPT ![t] = Nil]
  /\ UNCHANGED owned

Return(t) ==
  /\ Moves(t, "returned", "idle")
  /\ UNCHANGED <<free, owned, hand>>

Next ==
  \E t \in Tasks :
    \/ Ask(t) \/ Grant(t) \/ Refuse(t) \/ Take(t)
    \/ \E u \in Tasks, b \in Blocks : GiveBack(t, u, b)
    \/ Put(t) \/ Return(t)

Spec == Init /\ [][Next]_allocVars

=============================================================================
