------------------------------ MODULE MemPool ------------------------------
(***************************************************************************)
(* One memory pool of OS/memory.c: a linked list of free blocks guarded by *)
(* the mutex PoolMux, and the semaphore PoolSem, which counts the blocks   *)
(* of the list.  An allocation takes a resource of PoolSem after the block *)
(* is off the list, a deallocation gives one back.                         *)
(***************************************************************************)
EXTENDS SyncCalls

CONSTANTS
  PoolMux, PoolSem,    \* the mux and the sem field of the pool
  Blocks,      \* the blocks of the elements array: 1 .. nBlocks
  VectorWord,  \* what a read through the null pointer yields
  Allocators   \* the tasks that call OS_Malloc

ASSUME MemPoolAssumption ==
  /\ PoolMux \in Mutexes /\ PoolSem \in Semaphores
  /\ Blocks = 1 .. Resources[PoolSem]
  /\ Nil \notin Blocks
  /\ VectorWord \notin Blocks \cup {Nil}
  /\ Allocators \subseteq Tasks

VARIABLES
  head,   \* pool->head
  next,   \* the next field of every block, user data while it is allocated
  item,   \* the block every task is allocating or giving back
  owned   \* history: the blocks every task has been given

poolData == <<head, next, item, owned>>
poolVars == <<vars, syncVars, stage, poolData>>

\* Loads through a block pointer.  Address 0 is readable: it holds the vector
\* table.  A free block's data field points to the block itself.
DataOf(p) == IF p \in Blocks THEN p ELSE VectorWord

NextOf(p) == IF p \in Blocks THEN next[p] ELSE VectorWord

-----------------------------------------------------------------------------
\* OS_Malloc

OS_Malloc(t) ==
  /\ CallCounting(t, PoolSem, "ma_test")
  /\ UNCHANGED poolData

MaTest(t) ==
  /\ WaitOrLock(t, "ma_test", OS_SemaphoreFull(t), PoolSem, PoolMux, "ma_lock", "ma_data")
  /\ UNCHANGED poolData

\* Woken, or refused by OS_Wait: the pool is not tested again.
MaLock(t) ==
  /\ CallMutexAquire(t, "ma_lock", PoolMux, "ma_data")
  /\ UNCHANGED poolData

MaData(t) ==
  /\ OwnStep(t, "ma_data", "ma_next")
  /\ item' = [item EXCEPT ![t] = DataOf(head)]
  /\ UNCHANGED <<head, next, owned>>

\* Mutant: the head stays where it is.
MaNextKeepsHead(t) ==
  /\ OwnStep(t, "ma_next", "ma_unlock")
  /\ UNCHANGED poolData

MaNext(t) ==
  /\ OwnStep(t, "ma_next", "ma_unlock")
  /\ head' = NextOf(head)
  /\ UNCHANGED <<next, item, owned>>

MaUnlock(t) ==
  /\ CallMutexRelease(t, "ma_unlock", PoolMux, "ma_take")
  /\ UNCHANGED poolData

\* Mutant: the semaphore is not told of the allocation.
MaTakeNothing(t) ==
  /\ OwnStep(t, "ma_take", "ma_end")
  /\ UNCHANGED poolData

MaTake(t) ==
  /\ CallSemaphoreAquire(t, "ma_take", PoolSem, "ma_end")
  /\ UNCHANGED poolData

\* The block is the caller's, who may write any of its words.
MaReturn(t) ==
  /\ OwnStep(t, "ma_end", "none")
  /\ owned' = [owned EXCEPT ![t] = @ \cup {item[t]}]
  /\ next' = IF item[t] \in Blocks THEN [next EXCEPT ![item[t]] = VectorWord] ELSE next
  /\ item' = [item EXCEPT ![t] = Nil]
  /\ UNCHANGED head

-----------------------------------------------------------------------------
\* OS_Dalloc, by any task: whoever has the block may have been handed it.

\* Mutant: the block is pushed without the mutex.
OS_DallocUnlocked(t, b) ==
  /\ OwnStep(t, "none", "da_link")
  /\ \E u \in Tasks :
       /\ b \in owned[u] \cap Blocks
       /\ owned' = [owned EXCEPT ![u] = @ \ {b}]
  /\ item' = [item EXCEPT ![t] = b]
  /\ UNCHANGED <<head, next>>

OS_Dalloc(t, b) ==
  /\ AtStage(t, "none")
  /\ \E u \in Tasks :
       /\ b \in owned[u] \cap Blocks
       /\ owned' = [owned EXCEPT ![u] = @ \ {b}]
  /\ Enter(t, "aq_ldrex", PoolMux, "da_link")
  /\ item' = [item EXCEPT ![t] = b]
  /\ UNCHANGED <<loaded, head, next>>

\* The two stores to the block: data = item and next = head.
DaLink(t) ==
  /\ OwnStep(t, "da_link", "da_push")
  /\ next' = [next EXCEPT ![item[t]] = head]
  /\ UNCHANGED <<head, item, owned>>

DaPush(t) ==
  /\ OwnStep(t, "da_push", "da_unlock")
  /\ head' = item[t]
  /\ UNCHANGED <<next, item, owned>>

DaUnlock(t) ==
  /\ CallMutexRelease(t, "da_unlock", PoolMux, "da_give")
  /\ UNCHANGED poolData

DaGive(t) ==
  /\ CallSemaphoreRelease(t, "da_give", PoolSem, "da_end")
  /\ UNCHANGED poolData

DaReturn(t) ==
  /\ OwnStep(t, "da_end", "none")
  /\ item' = [item EXCEPT ![t] = Nil]
  /\ UNCHANGED <<head, next, owned>>

-----------------------------------------------------------------------------

\* The list as OS_InitMempool builds it.  It adds the blocks with OS_Dalloc, whose
\* calls of the mutex and the semaphore leave nothing behind: OS_InitMempool
\* initialises both afterwards, and before OS_Start nobody else runs.
EmptyList == [head |-> Nil, next |-> [b \in Blocks |-> Nil]]

OS_MempoolAdd(list, b) == [head |-> b, next |-> [list.next EXCEPT ![b] = list.head]]

AfterAdds[i \in 0 .. Cardinality(Blocks)] ==
  IF i = 0 THEN EmptyList ELSE OS_MempoolAdd(AfterAdds[i - 1], i)

OS_InitMempool ==
  LET list == AfterAdds[Cardinality(Blocks)] IN
    /\ head = list.head
    /\ next = list.next
    /\ item = [t \in Tasks |-> Nil]
    /\ owned = [t \in Tasks |-> {}]

PoolInit == SyncInit /\ OS_InitMempool

PoolStep(t) ==
  \/ t \in Allocators /\ OS_Malloc(t)
  \/ MaTest(t) \/ MaLock(t) \/ MaData(t) \/ MaNext(t)
  \/ MaUnlock(t) \/ MaTake(t) \/ MaReturn(t)
  \/ \E b \in Blocks : OS_Dalloc(t, b)
  \/ DaLink(t) \/ DaPush(t) \/ DaUnlock(t) \/ DaGive(t) \/ DaReturn(t)

PoolThread(t) ==
  \/ (InnerStep(t) \/ OuterStep(t)) /\ UNCHANGED poolData
  \/ PoolStep(t)

PoolNext ==
  \/ Handlers /\ UNCHANGED <<syncVars, stage, poolData>>
  \/ \E t \in Tasks : PoolThread(t)

PoolSpec == PoolInit /\ [][PoolNext]_poolVars

\* Fairness as in Mutex.
PoolFairness ==
  /\ WF_poolVars(OS_Start /\ UNCHANGED <<syncVars, stage, poolData>>)
  /\ WF_poolVars(SysTick_Handler /\ UNCHANGED <<syncVars, stage, poolData>>)
  /\ WF_poolVars((UpdateSleepingTasks \/ PendSV_Handler)
                   /\ UNCHANGED <<syncVars, stage, poolData>>)
  /\ SF_poolVars(\/ IdleSchedule /\ UNCHANGED <<syncVars, stage, poolData>>
                 \/ \E t \in Tasks : PoolThread(t))
  /\ SF_poolVars(\E t \in Tasks : StrexStep(t) /\ UNCHANGED poolData)

PoolFairSpec == PoolSpec /\ PoolFairness

-----------------------------------------------------------------------------
\* Properties.

MallocStages == {"ma_test", "ma_lock", "ma_data", "ma_next", "ma_unlock", "ma_take",
                 "ma_end"}

DallocStages == {"da_link", "da_push", "da_unlock", "da_give", "da_end"}

\* The pool and the calls of every task are well typed.
PoolTypeOK ==
  /\ KernelTypeOK
  /\ Started
  /\ stage \in [Tasks -> {"none"} \cup MallocStages \cup DallocStages]
  /\ head \in Blocks \cup {Nil, VectorWord}
  /\ next \in [Blocks -> Blocks \cup {Nil, VectorWord}]
  /\ item \in [Tasks -> Blocks \cup {Nil, VectorWord}]
  /\ owned \in [Tasks -> SUBSET (Blocks \cup {VectorWord})]

\* The first pointers of the chain from head.
Chain[i \in 0 .. Cardinality(Blocks)] ==
  IF i = 0 THEN head ELSE NextOf(Chain[i - 1])

FreeBlocks == {Chain[i] : i \in DOMAIN Chain} \cap Blocks

\* The call of task t has block b and the list has not: popped and not returned yet,
\* or given to OS_Dalloc and not pushed yet.
InHand(t, b) ==
  item[t] = b /\ stage[t] \in {"ma_unlock", "ma_take", "ma_end", "da_link", "da_push"}

\* Every block is in the free list, in the hands of one call or allocated to one
\* task, and nowhere twice: no interleaving of allocations and deallocations hands a
\* block out twice, loses it or ties the list into a loop.
BlockInOnePlace ==
  /\ \A b \in Blocks :
       Cardinality({t \in Tasks : InHand(t, b)})
         + Cardinality({t \in Tasks : b \in owned[t]})
         + (IF b \in FreeBlocks THEN 1 ELSE 0) = 1
  /\ Chain[Cardinality(Blocks)] \notin Blocks

\* A call takes effect when it moves the head.
AllocPhase(t) ==
  CASE stage[t] = "none" -> "idle"
    [] stage[t] \in {"ma_test", "ma_lock", "ma_data", "ma_next"} -> "asking"
    [] stage[t] \in {"ma_unlock", "ma_take", "ma_end"} -> "granted"
    [] stage[t] \in {"da_link", "da_push"} -> "returning"
    [] OTHER -> "returned"

\* The list implements AllocatorSpec, word by word, however the calls interleave:
\* each takes effect at once, and an allocation that goes wrong, through the null
\* head, has met an empty list.
Allocator == INSTANCE AllocatorSpec WITH
  NoBlock <- VectorWord,
  free    <- FreeBlocks,
  phase   <- [t \in Tasks |-> AllocPhase(t)],
  hand    <- [t \in Tasks |->
                IF AllocPhase(t) \in {"granted", "returning"} THEN item[t] ELSE Nil]

AllocatorSpecHolds == Allocator!Spec

\* The semaphore never shows more free blocks than the list has, but for those just
\* being popped.
NoPhantomBlock ==
  counter[PoolSem] <=
    Cardinality(FreeBlocks)
      + Cardinality({t \in Tasks :
          /\ item[t] \in Blocks
          /\ \/ stage[t] \in {"ma_unlock", "ma_take"}
             \/ stage[t] = "ma_end" /\ pc[t] \in SemAcquireLabels})

\* "Put the calling task into the wait state if the pool is empty" (memory.c): a
\* block is only taken from a list that has one.
PoolNotEmptied ==
  \A t \in Tasks : stage[t] = "ma_next" => item[t] \in Blocks

=============================================================================
