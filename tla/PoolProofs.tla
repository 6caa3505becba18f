----------------------------- MODULE PoolProofs -----------------------------
(***************************************************************************)
(* Theorems about MemPool, for every set of tasks, allocators and levels,  *)
(* every number of blocks, and whatever other mutexes and semaphores there *)
(* are.                                                                    *)
(***************************************************************************)
EXTENDS MemPool, SyncProofs

-----------------------------------------------------------------------------
\* The inductive invariant.

Pointers == Blocks \cup {Nil, VectorWord}

PoolDataTyped ==
  /\ stage \in [Tasks -> {"none"} \cup MallocStages \cup DallocStages]
  /\ head \in Pointers
  /\ next \in [Blocks -> Pointers]
  /\ item \in [Tasks -> Pointers]
  /\ owned \in [Tasks -> SUBSET (Blocks \cup {VectorWord})]

\* Which call a task is in tells where its function continues, and on which object.
PoolCalls ==
  \A t \in Tasks :
    /\ pc[t] \in ReadCount => stage[t] = "ma_test"
    /\ pc[t] = "wait_svc" => stage[t] = "ma_lock"
    /\ pc[t] \in AcquireLabels => stage[t] \in {"ma_data", "da_link"} /\ arg[t] = PoolMux
    /\ pc[t] \in ReleaseLabels => stage[t] \in {"ma_take", "da_give"}
    /\ pc[t] \in Taking => stage[t] = "ma_end" /\ arg[t] = PoolSem
    /\ pc[t] \in Giving => stage[t] = "da_end" /\ arg[t] = PoolSem

\* Between OS_MutexAquire and OS_MutexRelease of the pool's mutex.
Inside(t) ==
  \/ stage[t] \in {"ma_next", "ma_unlock", "da_push", "da_unlock"}
  \/ stage[t] \in {"ma_data", "da_link"} /\ pc[t] = "user"

InsideHolds == \A t \in Tasks : Inside(t) => PoolMux \in held[t]

PoolControl == SyncKept /\ FunctionsCall /\ PoolCalls /\ InsideHolds

\* The first n blocks of f are the free list, in its order, each once.
Linked(n, f) ==
  /\ f \in [1 .. n -> Blocks]
  /\ \A i, j \in 1 .. n : i # j => f[i] # f[j]
  /\ IF n = 0 THEN head \notin Blocks ELSE head = f[1]
  /\ \A i \in 1 .. n : IF i = n THEN next[f[i]] \notin Blocks ELSE next[f[i]] = f[i + 1]

ListEnds == \E n \in Nat : \E f : Linked(n, f)

\* What a call has in hand is what it took from the list or was given.
ItemsKnown ==
  \A t \in Tasks :
    /\ stage[t] \in {"ma_next", "ma_unlock", "ma_take", "ma_end"} => item[t] # Nil
    /\ stage[t] = "ma_next" => item[t] = DataOf(head)
    /\ stage[t] \in {"da_link", "da_push"} => item[t] \in Blocks
    /\ stage[t] = "da_push" => next[item[t]] = head

\* Nobody has a block that the list or somebody else has.
PlacesDiffer ==
  \A b \in Blocks :
    /\ \A t, u \in Tasks : InHand(t, b) /\ InHand(u, b) => t = u
    /\ \A t, u \in Tasks : b \in owned[t] /\ b \in owned[u] => t = u
    /\ \A t, u \in Tasks : ~(InHand(t, b) /\ b \in owned[u])
    /\ \A t \in Tasks : InHand(t, b) \/ b \in owned[t] => b \notin FreeBlocks

\* No block is lost.
SomePlace ==
  \A b \in Blocks : b \in FreeBlocks \/ \E t \in Tasks : InHand(t, b) \/ b \in owned[t]

PoolData == ListEnds /\ ItemsKnown /\ PlacesDiffer /\ SomePlace

PoolInv == PoolControl /\ PoolDataTyped /\ PoolData

\* The calls that have taken a block off the list and not told the semaphore, and those
\* that have put one back and not told it.
Popping ==
  {t \in Tasks :
     /\ item[t] \in Blocks
     /\ \/ stage[t] \in {"ma_unlock", "ma_take"}
        \/ stage[t] = "ma_end" /\ pc[t] \in SemAcquireLabels}

Pushing ==
  {t \in Tasks :
     \/ stage[t] \in {"da_unlock", "da_give"}
     \/ stage[t] = "da_end" /\ pc[t] \in {"sr_ldrex", "sr_strex"}}

BlocksCounted ==
  /\ IsFiniteSet(Popping) /\ IsFiniteSet(Pushing)
  /\ counter[PoolSem] + Cardinality(Pushing) <= Cardinality(FreeBlocks) + Cardinality(Popping)

\* At most one task is between the acquire and the release of the mutex.
LEMMA InsideAlone ==
  ASSUME PoolControl, NEW t \in Tasks, Inside(t), NEW u \in Tasks, Inside(u)
  PROVE  t = u
BY DEF PoolControl, InsideHolds, SyncKept, SyncShape, MutexShape, MuxTyped, Owned, HoldersOwn

-----------------------------------------------------------------------------
\* The steps of the functions.

\* The steps that make a call.
PoolCallStep(t) ==
  \/ t \in Allocators /\ OS_Malloc(t)
  \/ MaTest(t) \/ MaLock(t) \/ MaUnlock(t) \/ MaTake(t)
  \/ \E b \in Blocks : OS_Dalloc(t, b)
  \/ DaUnlock(t) \/ DaGive(t)

\* The steps on the pool itself, and the returns.
PoolOwnStep(t) ==
  \/ MaData(t) \/ MaNext(t) \/ MaReturn(t)
  \/ DaLink(t) \/ DaPush(t) \/ DaReturn(t)

LEMMA PoolSteps ==
  ASSUME NEW t \in Tasks, PoolStep(t)
  PROVE  PoolCallStep(t) \/ PoolOwnStep(t)
BY DEF PoolStep, PoolCallStep, PoolOwnStep

\* From which stage to which a call leads, and its first step.
LEMMA PoolCallMoves ==
  ASSUME PoolDataTyped, SyncKept, NEW t \in Tasks, PoolCallStep(t)
  PROVE  /\ Entries(t)
         /\ stage' = [stage EXCEPT ![t] = stage'[t]]
         /\ \/ stage[t] = "none" /\ stage'[t] = "ma_test" /\ pc'[t] = "gc_ldrex"
            \/ stage[t] = "ma_test" /\ stage'[t] = "ma_lock" /\ pc'[t] = "wait_svc"
            \/ /\ stage[t] \in {"ma_test", "ma_lock"} /\ stage'[t] = "ma_data"
               /\ pc'[t] = "aq_ldrex" /\ arg'[t] = PoolMux
            \/ /\ stage[t] = "none" /\ stage'[t] = "da_link"
               /\ pc'[t] = "aq_ldrex" /\ arg'[t] = PoolMux
            \/ /\ stage[t] = "ma_unlock" /\ stage'[t] = "ma_take"
               /\ pc'[t] = "rl_check" /\ arg'[t] = PoolMux
            \/ /\ stage[t] = "da_unlock" /\ stage'[t] = "da_give"
               /\ pc'[t] = "rl_check" /\ arg'[t] = PoolMux
            \/ /\ stage[t] = "ma_take" /\ stage'[t] = "ma_end"
               /\ pc'[t] = "sa_ldrex" /\ arg'[t] = PoolSem
            \/ /\ stage[t] = "da_give" /\ stage'[t] = "da_end"
               /\ pc'[t] = "sr_ldrex" /\ arg'[t] = PoolSem
<1> USE MemPoolAssumption
    DEF PoolDataTyped, SyncKept, SyncShape, MutexShape, PcDomain, KernelTyped, KernelTypeOK,
        AtStage, ToStage, Enter, Goto
<1>1. Entries(t)
  <2>1. CASE \/ OS_Malloc(t) \/ MaTest(t) \/ MaLock(t) \/ MaUnlock(t) \/ MaTake(t)
             \/ DaUnlock(t) \/ DaGive(t)
    BY <2>1, CallsEnter DEF OS_Malloc, MaTest, MaLock, MaUnlock, MaTake, DaUnlock, DaGive
  <2>2. ASSUME NEW b \in Blocks, OS_Dalloc(t, b) PROVE Entries(t)
    BY <2>2 DEF OS_Dalloc, Entries, Entering
  <2> QED
    BY <2>1, <2>2 DEF PoolCallStep
<1>2. CASE OS_Malloc(t)
  BY <1>1, <1>2 DEF OS_Malloc, CallCounting, GetCountCall, Calling
<1>3. CASE MaTest(t)
  BY <1>1, <1>3 DEF MaTest, WaitOrLock
<1>4. CASE \E b \in Blocks : OS_Dalloc(t, b)
  BY <1>1, <1>4 DEF OS_Dalloc
<1>5. CASE MaLock(t)
  BY <1>1, <1>5 DEF MaLock, CallMutexAquire
<1>6. CASE MaUnlock(t) \/ DaUnlock(t)
  BY <1>1, <1>6 DEF MaUnlock, DaUnlock, CallMutexRelease, ReleaseCall, Calling
<1>7. CASE MaTake(t) \/ DaGive(t)
  BY <1>1, <1>7 DEF MaTake, DaGive, CallSemaphoreAquire, CallSemaphoreRelease
<1> QED
  BY <1>2, <1>3, <1>4, <1>5, <1>6, <1>7 DEF PoolCallStep

\* The steps on the pool leave the calls and the kernel alone.
LEMMA PoolOwnMoves ==
  ASSUME PoolDataTyped, NEW t \in Tasks, PoolOwnStep(t)
  PROVE  /\ UNCHANGED <<vars, syncVars>> /\ pc[t] = "user"
         /\ pc' = pc /\ arg' = arg /\ held' = held /\ counter' = counter
         /\ stage' = [stage EXCEPT ![t] = stage'[t]]
         /\ \/ stage[t] = "ma_data" /\ stage'[t] = "ma_next"
            \/ stage[t] = "ma_next" /\ stage'[t] = "ma_unlock"
            \/ stage[t] = "da_link" /\ stage'[t] = "da_push"
            \/ stage[t] = "da_push" /\ stage'[t] = "da_unlock"
            \/ stage[t] \in {"ma_end", "da_end"} /\ stage'[t] = "none"
BY DEF PoolDataTyped, PoolOwnStep, MaData, MaNext, MaReturn, DaLink, DaPush, DaReturn,
       OwnStep, AtStage, ToStage, Executing, vars, taskVars, syncVars, mutexVars, semVars

\* Every step keeps the part about the calls.
LEMMA PoolNextControl ==
  ASSUME PoolControl, PoolDataTyped, [PoolNext]_poolVars PROVE PoolControl'
<1> USE DEF PoolControl
<1>1. CASE UNCHANGED poolVars
  <2>1. SyncKept'
    BY <1>1, OwnStepKept DEF poolVars
  <2> QED
    BY <1>1, <2>1 DEF poolVars, vars, taskVars, syncVars, mutexVars, FunctionsCall, PoolCalls, InsideHolds, Inside
<1>2. CASE \/ Handlers /\ UNCHANGED <<syncVars, stage>>
           \/ \E t \in Tasks : OuterStep(t)
  <2>1. SyncKept'
    BY <1>2, OtherStepKept DEF OuterStep
  <2>2. /\ stage' = stage /\ held' = held /\ arg' = arg /\ FunctionsCall'
        /\ \A u \in Tasks : \A l \in CallLabels : pc'[u] = l <=> pc[u] = l
        /\ \A u \in Tasks : stage[u] # "none" => pc'[u] = pc[u]
    BY <1>2, OtherStepCalls DEF syncVars, mutexVars
  <2>3. PoolCalls'
    BY <2>2 DEF PoolCalls, CallLabels, AcquireLabels, ReleaseLabels, SemLabels,
                SemAcquireLabels, ReadCount, Taking, Giving
  <2>4. InsideHolds'
    BY <2>2 DEF InsideHolds, Inside
  <2> QED
    BY <2>1, <2>2, <2>3, <2>4
<1>3. ASSUME NEW t \in Tasks, InnerStep(t) PROVE PoolControl'
  <2>1. SyncKept'
    BY <1>3, InnerStepKept
  <2>2. stage' = stage
    BY <1>3 DEF InnerStep
  <2>3. \A u \in Tasks \ {t} : pc'[u] = pc[u] /\ arg'[u] = arg[u] /\ held'[u] = held[u]
    BY <1>3, InnerStepOthers
  <2>4. /\ pc[t] \in CallLabels
        /\ \/ pc'[t] = "user"
           \/ arg'[t] = arg[t] /\ \A kind \in CallKinds : pc[t] \in kind <=> pc'[t] \in kind
    <3>1. /\ pc[t] \in CallLabels
          /\ \/ pc'[t] = "user"
             \/ arg'[t] = arg[t] /\ \E kind \in CallKinds : {pc[t], pc'[t]} \subseteq kind
      BY <1>3, InnerStepStays
    <3> QED
      BY <3>1, SameKind
  <2>5. \/ pc'[t] = "user"
        \/ /\ arg'[t] = arg[t]
           /\ pc[t] \in ReadCount <=> pc'[t] \in ReadCount
           /\ pc[t] \in {"wait_svc"} <=> pc'[t] \in {"wait_svc"}
           /\ pc[t] \in AcquireLabels <=> pc'[t] \in AcquireLabels
           /\ pc[t] \in ReleaseLabels <=> pc'[t] \in ReleaseLabels
           /\ pc[t] \in Taking <=> pc'[t] \in Taking
           /\ pc[t] \in Giving <=> pc'[t] \in Giving
    BY <2>4 DEF CallKinds
  <2>6. pc[t] \in ReadCount \cup {"wait_svc"} \cup AcquireLabels \cup ReleaseLabels
                  \cup Taking \cup Giving
    BY <2>4 DEF CallLabels, SemLabels, ReadCount, Taking, Giving
  <2>7. "user" \notin ReadCount \cup {"wait_svc"} \cup AcquireLabels \cup ReleaseLabels
                  \cup Taking \cup Giving
    BY DEF ReadCount, AcquireLabels, ReleaseLabels, Taking, Giving, SemAcquireLabels
  <2>8. pc'[t] \in {"user"} \cup CallLabels
    BY <2>5, <2>6 DEF CallLabels, SemLabels, ReadCount, Taking, Giving
  <2>9. FunctionsCall'
    BY <2>2, <2>3, <2>8 DEF FunctionsCall
  <2>10. PoolCalls'
    BY <2>2, <2>3, <2>5, <2>7 DEF PoolCalls
  <2>11. InsideHolds'
    <3>1. ASSUME Inside(t)' PROVE PoolMux \in held'[t]
      <4>1. pc[t] \in AcquireLabels /\ pc'[t] = "user" /\ arg[t] = PoolMux
        BY <2>2, <2>5, <2>6, <2>7, <3>1 DEF Inside, PoolCalls
      <4> QED
        BY <1>3, <4>1, InnerStepHeld
    <3> QED
      BY <2>2, <2>3, <3>1 DEF InsideHolds, Inside
  <2> QED
    BY <2>1, <2>9, <2>10, <2>11
<1>4. ASSUME NEW t \in Tasks, PoolCallStep(t) PROVE PoolControl'
  <2>1. Entries(t)
    BY <1>4, PoolCallMoves
  <2>2. SyncKept'
    BY <2>1, EntriesKept
  <2>3. /\ pc[t] = "user"
        /\ \A u \in Tasks \ {t} :
             pc'[u] = pc[u] /\ arg'[u] = arg[u] /\ held'[u] = held[u]
    BY <2>1, EntriesMove
  <2>4. \A u \in Tasks \ {t} : stage'[u] = stage[u]
    BY <1>4, PoolCallMoves DEF PoolDataTyped
  <2>5. FunctionsCall' /\ PoolCalls' /\ InsideHolds'
    BY <1>4, <2>3, <2>4, PoolCallMoves
    DEF FunctionsCall, PoolCalls, InsideHolds, Inside, CallLabels, AcquireLabels,
        ReleaseLabels, SemLabels, SemAcquireLabels, ReadCount, Taking, Giving
  <2> QED
    BY <2>2, <2>5
<1>5. ASSUME NEW t \in Tasks, PoolOwnStep(t) PROVE PoolControl'
  <2>1. SyncKept'
    BY <1>5, PoolOwnMoves, OwnStepKept
  <2>2. \A u \in Tasks \ {t} : stage'[u] = stage[u]
    BY <1>5, PoolOwnMoves DEF PoolDataTyped
  <2>3. FunctionsCall' /\ PoolCalls' /\ InsideHolds'
    BY <1>5, <2>2, PoolOwnMoves
    DEF FunctionsCall, PoolCalls, InsideHolds, Inside, AcquireLabels,
        ReleaseLabels, SemAcquireLabels, ReadCount, Taking, Giving
  <2> QED
    BY <2>1, <2>3
<1> QED
  BY <1>1, <1>2, <1>3, <1>4, <1>5, PoolSteps DEF PoolNext, PoolThread

-----------------------------------------------------------------------------
\* The free list.

\* What Chain and FreeBlocks are of a list.
ListKnown ==
  \A n \in Nat : \A f :
    Linked(n, f) => /\ FreeBlocks = {f[i] : i \in 1 .. n}
                    /\ Chain[Cardinality(Blocks)] \notin Blocks

LEMMA BlocksFinite ==
  /\ IsFiniteSet(Blocks) /\ Cardinality(Blocks) \in Nat
  /\ Cardinality(Blocks) = Resources[PoolSem]
<1>1. Resources[PoolSem] \in Nat
  BY MemPoolAssumption, SemaphoreAssumption, CounterWidth
<1> QED
  BY <1>1, FS_Interval, MemPoolAssumption

\* A list without repetition is not longer than there are blocks.
LEMMA ListShort ==
  ASSUME NEW n \in Nat, NEW f, Linked(n, f)
  PROVE  n <= Cardinality(Blocks)
<1>1. f \in Injection(1 .. n, Blocks)
  BY DEF Linked, Injection, IsInjective
<1>2. Cardinality(1 .. n) <= Cardinality(Blocks)
  BY <1>1, BlocksFinite, FS_Injection
<1>3. Cardinality(1 .. n) = n
  BY FS_Interval
<1> QED
  BY <1>2, <1>3

\* The chain of pointers from head runs through the list and then leaves the blocks:
\* behind the null pointer there is what the vector table holds, for ever.
LEMMA ListChain == ListKnown
<1> SUFFICES ASSUME NEW n \in Nat, NEW f, Linked(n, f)
             PROVE  /\ FreeBlocks = {f[i] : i \in 1 .. n}
                    /\ Chain[Cardinality(Blocks)] \notin Blocks
  BY DEF ListKnown
<1> DEFINE N == Cardinality(Blocks)
           tail == IF n = 0 THEN head ELSE next[f[n]]
           g == [i \in 0 .. N |-> IF i < n THEN f[i + 1]
                                  ELSE IF i = n THEN tail ELSE VectorWord]
           Follows(c) == c = [i \in 0 .. N |-> IF i = 0 THEN head ELSE NextOf(c[i - 1])]
<1>1. N \in Nat /\ n <= N
  BY BlocksFinite, ListShort
<1> HIDE DEF N
<1>2. tail \notin Blocks
  BY DEF Linked
<1>3. g[0] = head
  BY <1>1 DEF Linked
<1>4. \A i \in 1 .. N : g[i] = NextOf(g[i - 1])
  <2> SUFFICES ASSUME NEW i \in 1 .. N PROVE g[i] = NextOf(g[i - 1])
    OBVIOUS
  <2>1. CASE i <= n
    <3>1. i \in 1 .. n /\ f[i] \in Blocks /\ g[i - 1] = f[i]
      BY <1>1, <2>1 DEF Linked
    <3>2. g[i] = next[f[i]]
      BY <1>1, <2>1, <3>1 DEF Linked
    <3> QED
      BY <3>1, <3>2 DEF NextOf
  <2>2. CASE i > n
    <3>1. g[i] = VectorWord /\ g[i - 1] \in {tail, VectorWord}
      BY <1>1, <2>2
    <3> QED
      BY <1>2, <3>1, MemPoolAssumption DEF NextOf
  <2> QED
    BY <2>1, <2>2, <1>1
<1> HIDE DEF g
<1>5. Follows(g)
  <2>1. g = [i \in 0 .. N |-> g[i]]
    BY DEF g
  <2>2. \A i \in 0 .. N : g[i] = IF i = 0 THEN head ELSE NextOf(g[i - 1])
    BY <1>1, <1>3, <1>4
  <2> QED
    BY <2>1, <2>2
<1>6. Chain = CHOOSE c : Follows(c)
  BY DEF Chain, N
<1>7. Follows(Chain)
  <2> HIDE DEF Follows
  <2> QED
    BY <1>5, <1>6
<1>8. \A i \in 0 .. N : Chain[i] = g[i]
  <2> DEFINE wrong == {i \in 0 .. N : Chain[i] # g[i]}
  <2> SUFFICES ASSUME wrong # {} PROVE FALSE
    OBVIOUS
  <2>1. wrong \in SUBSET Nat
    BY <1>1
  <2>2. PICK i \in wrong : \A j \in wrong : i <= j
    <3> HIDE DEF wrong
    <3> QED
      BY <2>1, LeastNumber
  <2>3. i # 0
    BY <1>1, <1>3, <1>7
  <2>4. i - 1 \in 0 .. N /\ i - 1 \notin wrong
    BY <1>1, <2>2, <2>3
  <2>5. Chain[i] = NextOf(Chain[i - 1])
    BY <1>7, <2>3
  <2> QED
    BY <1>1, <1>4, <2>3, <2>4, <2>5
<1>9. Chain[N] \notin Blocks
  <2>1. g[N] \in {tail, VectorWord}
    BY <1>1 DEF g
  <2> QED
    BY <1>1, <1>2, <1>8, <2>1, MemPoolAssumption
<1>10. FreeBlocks = {f[i] : i \in 1 .. n}
  <2>1. DOMAIN Chain = 0 .. N
    BY <1>7
  <2>2. \A i \in 1 .. n : /\ f[i] \in Blocks /\ i - 1 \in 0 .. N
                          /\ Chain[i - 1] = f[i]
    BY <1>1, <1>8 DEF Linked, g
  <2>3. \A i \in 0 .. N : Chain[i] \in Blocks => i + 1 \in 1 .. n /\ Chain[i] = f[i + 1]
    BY <1>1, <1>2, <1>8, MemPoolAssumption DEF g
  <2>4. \A b \in FreeBlocks : \E i \in 1 .. n : b = f[i]
    BY <2>1, <2>3 DEF FreeBlocks
  <2>5. \A i \in 1 .. n : f[i] \in FreeBlocks
    BY <2>1, <2>2 DEF FreeBlocks
  <2> QED
    BY <2>4, <2>5
<1> QED
  BY <1>9, <1>10 DEF N

\* A step that leaves the list alone.
LEMMA ListStays ==
  ASSUME ListEnds, head' = head, \A b \in FreeBlocks : next'[b] = next[b]
  PROVE  ListEnds' /\ FreeBlocks' = FreeBlocks
<1>1. PICK n \in Nat : \E f : Linked(n, f)
  BY DEF ListEnds
<1>2. PICK f : Linked(n, f)
  BY <1>1
<1>3. FreeBlocks = {f[i] : i \in 1 .. n}
  BY <1>2, ListChain DEF ListKnown
<1>4. Linked(n, f)'
  BY <1>2, <1>3 DEF Linked
<1>5. ListKnown'
  BY ListChain, PTL
<1> QED
  BY <1>3, <1>4, <1>5 DEF ListEnds, ListKnown

\* The head is taken off.
LEMMA ListPop ==
  ASSUME ListEnds, head' = NextOf(head), next' = next
  PROVE  /\ ListEnds' /\ FreeBlocks' = FreeBlocks \ {head}
         /\ IF head \in Blocks THEN head \in FreeBlocks ELSE FreeBlocks = {}
<1>1. PICK n \in Nat : \E f : Linked(n, f)
  BY DEF ListEnds
<1>2. PICK f : Linked(n, f)
  BY <1>1
<1>3. FreeBlocks = {f[i] : i \in 1 .. n}
  BY <1>2, ListChain DEF ListKnown
<1>4. ListKnown'
  BY ListChain, PTL
<1>5. CASE n = 0
  <2>1. head \notin Blocks /\ head' \notin Blocks
    BY <1>2, <1>5, MemPoolAssumption DEF Linked, NextOf
  <2>2. Linked(n, f)'
    BY <1>2, <1>5, <2>1 DEF Linked
  <2>3. FreeBlocks = {} /\ FreeBlocks' = {}
    BY <1>3, <1>4, <1>5, <2>2 DEF ListKnown
  <2> QED
    BY <2>1, <2>2, <2>3 DEF ListEnds
<1>6. CASE n > 0
  <2> DEFINE m == n - 1
             g == [i \in 1 .. m |-> f[i + 1]]
  <2>1. m \in Nat /\ n = m + 1
    BY <1>6
  <2> HIDE DEF m
  <2>2. head = f[1] /\ head \in Blocks /\ head' = next[f[1]]
    BY <1>2, <1>6 DEF Linked, NextOf
  <2>3. \A i \in 1 .. m : i + 1 \in 1 .. n /\ g[i] = f[i + 1] /\ f[i + 1] \in Blocks
    BY <1>2, <2>1 DEF Linked
  <2>4. Linked(m, g)'
    <3>1. g \in [1 .. m -> Blocks]
      BY <2>3
    <3>2. \A i, j \in 1 .. m : i # j => g[i] # g[j]
      BY <1>2, <2>1, <2>3 DEF Linked
    <3>3. IF m = 0 THEN head' \notin Blocks ELSE head' = g[1]
      BY <1>2, <2>1, <2>2, <2>3 DEF Linked
    <3>4. \A i \in 1 .. m : IF i = m THEN next[g[i]] \notin Blocks ELSE next[g[i]] = g[i + 1]
      BY <1>2, <2>1, <2>3 DEF Linked
    <3> HIDE DEF g
    <3> QED
      BY <3>1, <3>2, <3>3, <3>4 DEF Linked
  <2>5. FreeBlocks' = {g[i] : i \in 1 .. m}
    BY <1>4, <2>1, <2>4 DEF ListKnown
  <2>6. \A b \in FreeBlocks \ {head} : \E i \in 1 .. m : g[i] = b
    <3> SUFFICES ASSUME NEW i \in 1 .. n, i # 1 PROVE \E j \in 1 .. m : g[j] = f[i]
      BY <1>3, <2>2
    <3>1. i - 1 \in 1 .. m /\ g[i - 1] = f[i]
      BY <2>1
    <3> QED
      BY <3>1
  <2>7. \A i \in 1 .. m : g[i] \in FreeBlocks \ {head}
    BY <1>2, <1>3, <2>1, <2>2, <2>3 DEF Linked
  <2> HIDE DEF g
  <2>8. FreeBlocks' = FreeBlocks \ {head}
    BY <2>5, <2>6, <2>7
  <2>9. head \in FreeBlocks
    BY <1>3, <1>6, <2>2
  <2> QED
    BY <2>1, <2>2, <2>4, <2>8, <2>9 DEF ListEnds
<1> QED
  BY <1>5, <1>6

\* A block that is not in the list and points to the head becomes the head.
LEMMA ListPush ==
  ASSUME ListEnds, NEW b \in Blocks, b \notin FreeBlocks, next[b] = head, head' = b,
         next' = next
  PROVE  ListEnds' /\ FreeBlocks' = FreeBlocks \cup {b}
<1>1. PICK n \in Nat : \E f : Linked(n, f)
  BY DEF ListEnds
<1>2. PICK f : Linked(n, f)
  BY <1>1
<1>3. FreeBlocks = {f[i] : i \in 1 .. n}
  BY <1>2, ListChain DEF ListKnown
<1>4. ListKnown'
  BY ListChain, PTL
<1> DEFINE g == [i \in 1 .. n + 1 |-> IF i = 1 THEN b ELSE f[i - 1]]
<1>5. g[1] = b /\ \A i \in 1 .. n : i + 1 \in 1 .. n + 1 /\ g[i + 1] = f[i] /\ f[i] \in Blocks
  BY <1>2 DEF Linked
<1>6. \A i \in 1 .. n + 1 : i = 1 \/ (i - 1 \in 1 .. n /\ g[i] = f[i - 1])
  OBVIOUS
<1>7. Linked(n + 1, g)'
  <2>1. g \in [1 .. n + 1 -> Blocks]
    BY <1>2 DEF Linked
  <2>2. \A i, j \in 1 .. n + 1 : i # j => g[i] # g[j]
    <3>1. \A i \in 1 .. n : f[i] # b
      BY <1>3
    <3> HIDE DEF g
    <3>2. \A i \in 1 .. n + 1 : i # 1 => g[i] # b
      BY <1>6, <3>1
    <3>3. \A i, j \in 1 .. n + 1 : i # j /\ i # 1 /\ j # 1 => g[i] # g[j]
      BY <1>2, <1>6 DEF Linked
    <3> QED
      BY <1>5, <3>2, <3>3
  <2>3. \A i \in 1 .. n + 1 :
          IF i = n + 1 THEN next[g[i]] \notin Blocks ELSE next[g[i]] = g[i + 1]
    <3> SUFFICES ASSUME NEW i \in 1 .. n + 1
                 PROVE  IF i = n + 1 THEN next[g[i]] \notin Blocks
                                     ELSE next[g[i]] = g[i + 1]
      OBVIOUS
    <3>1. CASE i = 1
      <4>1. next[g[i]] = head
        BY <3>1
      <4>2. CASE n = 0
        BY <1>2, <3>1, <4>1, <4>2 DEF Linked
      <4>3. CASE n > 0
        <5>1. g[i + 1] = f[1] /\ head = f[1]
          BY <1>2, <3>1, <4>3 DEF Linked
        <5> QED
          BY <3>1, <4>1, <4>3, <5>1
      <4> QED
        BY <4>2, <4>3
    <3>2. CASE i # 1
      <4>1. i - 1 \in 1 .. n /\ g[i] = f[i - 1]
        BY <3>2
      <4>2. CASE i = n + 1
        BY <1>2, <4>1, <4>2 DEF Linked
      <4>3. CASE i # n + 1
        <5>1. g[i + 1] = f[i] /\ next[f[i - 1]] = f[i]
          BY <1>2, <4>1, <4>3 DEF Linked
        <5> QED
          BY <4>1, <4>3, <5>1
      <4> QED
        BY <4>2, <4>3
    <3> QED
      BY <3>1, <3>2
  <2>4. head' = g[1]
    BY <1>5
  <2> HIDE DEF g
  <2> QED
    BY <2>1, <2>2, <2>3, <2>4 DEF Linked
<1>8. FreeBlocks' = {g[i] : i \in 1 .. n + 1}
  <2> HIDE DEF g
  <2> QED
    BY <1>4, <1>7 DEF ListKnown
<1> HIDE DEF g
<1>9. {g[i] : i \in 1 .. n + 1} = {f[i] : i \in 1 .. n} \cup {b}
  <2>1. \A i \in 1 .. n + 1 : g[i] \in {f[j] : j \in 1 .. n} \cup {b}
    BY <1>5, <1>6
  <2>2. \A i \in 1 .. n : f[i] \in {g[j] : j \in 1 .. n + 1}
    BY <1>5
  <2>3. b \in {g[j] : j \in 1 .. n + 1}
    BY <1>5
  <2> QED
    BY <2>1, <2>2, <2>3
<1>10. ListEnds'
  <2>1. n + 1 \in Nat
    OBVIOUS
  <2> QED
    BY <1>7, <2>1 DEF ListEnds
<1> QED
  BY <1>3, <1>8, <1>9, <1>10

-----------------------------------------------------------------------------
\* The pool as OS_InitMempool leaves it.

\* The list once the first i blocks were added.
AddedTo(i) ==
  [head |-> IF i = 0 THEN Nil ELSE i,
   next |-> [b \in Blocks |-> IF b = 1 \/ b > i THEN Nil ELSE b - 1]]

\* Adding block i puts it before the ones added so far.
LEMMA AddLinks ==
  ASSUME NEW i \in Blocks
  PROVE  OS_MempoolAdd(AddedTo(i - 1), i) = AddedTo(i)
<1>1. i \in Nat /\ i > 0 /\ i - 1 \in Nat /\ \A b \in Blocks : b \in Nat /\ b > 0
  BY MemPoolAssumption, BlocksFinite
<1>2. AddedTo(i - 1).head = IF i = 1 THEN Nil ELSE i - 1
  BY <1>1 DEF AddedTo
<1>3. [AddedTo(i - 1).next EXCEPT ![i] = AddedTo(i - 1).head] = AddedTo(i).next
  <2>1. \A b \in Blocks : (IF b = i THEN AddedTo(i - 1).head ELSE AddedTo(i - 1).next[b])
                            = AddedTo(i).next[b]
    BY <1>1, <1>2 DEF AddedTo
  <2> QED
    BY <2>1 DEF AddedTo
<1>4. AddedTo(i) = [head |-> i, next |-> AddedTo(i).next]
  <2>1. ASSUME NEW links, NEW list, list = [head |-> IF i = 0 THEN Nil ELSE i, next |-> links]
        PROVE  list = [head |-> i, next |-> list.next]
    BY <1>1, <2>1
  <2>2. PICK list : list = AddedTo(i)
    OBVIOUS
  <2>3. list = [head |-> i, next |-> list.next]
    BY <2>1, <2>2 DEF AddedTo
  <2> QED
    BY <2>2, <2>3
<1> QED
  BY <1>3, <1>4 DEF OS_MempoolAdd

LEMMA AddedLinks ==
  ASSUME NEW i \in 0 .. Cardinality(Blocks)
  PROVE  AfterAdds[i] = AddedTo(i)
<1> DEFINE N == Cardinality(Blocks)
           g == [j \in 0 .. N |-> AddedTo(j)]
           Follows(c) == c = [j \in 0 .. N |-> IF j = 0 THEN EmptyList ELSE OS_MempoolAdd(c[j - 1], j)]
<1>1. N \in Nat /\ Blocks = 1 .. N
  BY BlocksFinite, MemPoolAssumption
<1>2. AddedTo(0) = EmptyList
  <2>1. \A b \in Blocks : b > 0
    BY <1>1
  <2> QED
    BY <2>1 DEF AddedTo, EmptyList
<1> HIDE DEF N
<1>3. Follows(g)
  <2>1. \A j \in 0 .. N : AddedTo(j) = IF j = 0 THEN EmptyList ELSE OS_MempoolAdd(g[j - 1], j)
    <3> SUFFICES ASSUME NEW j \in 0 .. N, j # 0 PROVE AddedTo(j) = OS_MempoolAdd(g[j - 1], j)
      BY <1>2
    <3>1. j \in Blocks /\ g[j - 1] = AddedTo(j - 1)
      BY <1>1
    <3> QED
      BY <3>1, AddLinks
  <2> QED
    BY <2>1
<1>4. AfterAdds = CHOOSE c : Follows(c)
  BY DEF AfterAdds, N
<1>5. Follows(AfterAdds)
  <2> HIDE DEF Follows
  <2> QED
    BY <1>3, <1>4
<1> DEFINE wrong == {j \in 0 .. N : AfterAdds[j] # AddedTo(j)}
<1>6. SUFFICES ASSUME wrong # {} PROVE FALSE
  BY DEF N
<1>7. wrong \in SUBSET Nat
  BY <1>1
<1>8. PICK j \in wrong : \A k \in wrong : j <= k
  <2> HIDE DEF wrong
  <2> QED
    BY <1>6, <1>7, LeastNumber
<1>9. j # 0
  BY <1>1, <1>2, <1>5
<1>10. j - 1 \in 0 .. N /\ j - 1 \notin wrong /\ j \in Blocks
  BY <1>1, <1>8, <1>9
<1>11. AfterAdds[j] = OS_MempoolAdd(AfterAdds[j - 1], j)
  BY <1>5, <1>9
<1> QED
  BY <1>10, <1>11, AddLinks

\* Every block is in the list, from the last to the first.
LEMMA PoolInitList ==
  ASSUME OS_InitMempool
  PROVE  /\ ListEnds /\ FreeBlocks = Blocks
         /\ head \in Pointers /\ next \in [Blocks -> Pointers]
<1> DEFINE N == Cardinality(Blocks)
           f == [i \in 1 .. N |-> N + 1 - i]
<1>1. N \in Nat /\ Blocks = 1 .. N
  BY BlocksFinite, MemPoolAssumption
<1>2. AfterAdds[N] = AddedTo(N)
  BY <1>1, AddedLinks
<1> HIDE DEF N
<1>3. /\ head = IF N = 0 THEN Nil ELSE N
      /\ next = [b \in Blocks |-> IF b = 1 \/ b > N THEN Nil ELSE b - 1]
  BY <1>2 DEF OS_InitMempool, AddedTo, N
<1>4. Linked(N, f)
  <2>1. f \in [1 .. N -> Blocks]
    BY <1>1
  <2>2. \A i, j \in 1 .. N : i # j => f[i] # f[j]
    BY <1>1
  <2>3. IF N = 0 THEN head \notin Blocks ELSE head = f[1]
    BY <1>1, <1>3, MemPoolAssumption
  <2>4. \A i \in 1 .. N : IF i = N THEN next[f[i]] \notin Blocks ELSE next[f[i]] = f[i + 1]
    BY <1>1, <1>3, MemPoolAssumption
  <2> HIDE DEF f
  <2> QED
    BY <2>1, <2>2, <2>3, <2>4 DEF Linked
<1>5. FreeBlocks = {f[i] : i \in 1 .. N}
  <2> HIDE DEF f
  <2> QED
    BY <1>1, <1>4, ListChain DEF ListKnown
<1>6. FreeBlocks = Blocks
  <2>1. \A b \in Blocks : N + 1 - b \in 1 .. N /\ f[N + 1 - b] = b
    BY <1>1
  <2>2. \A i \in 1 .. N : f[i] \in Blocks
    BY <1>1
  <2> HIDE DEF f
  <2> QED
    BY <1>5, <2>1, <2>2
<1>7. ListEnds
  <2> HIDE DEF f
  <2> QED
    BY <1>1, <1>4 DEF ListEnds
<1>8. head \in Pointers /\ next \in [Blocks -> Pointers]
  BY <1>1, <1>3 DEF Pointers
<1> QED
  BY <1>6, <1>7, <1>8

LEMMA PoolInitInv == PoolInit => PoolInv
<1> SUFFICES ASSUME PoolInit PROVE PoolInv
  OBVIOUS
<1>1. SyncKept
  BY SyncInitKept DEF PoolInit
<1>2. \A t \in Tasks : pc[t] = "dormant" /\ stage[t] = "none"
  BY KernelAssumption DEF PoolInit, SyncInit, MutexInit, Init
<1>3. FunctionsCall /\ PoolCalls /\ InsideHolds
  BY <1>2 DEF FunctionsCall, PoolCalls, InsideHolds, Inside, AcquireLabels, ReleaseLabels,
              SemAcquireLabels, ReadCount, Taking, Giving
<1>4. /\ ListEnds /\ FreeBlocks = Blocks
      /\ head \in Pointers /\ next \in [Blocks -> Pointers]
  BY PoolInitList DEF PoolInit
<1>5. item = [t \in Tasks |-> Nil] /\ owned = [t \in Tasks |-> {}]
  BY DEF PoolInit, OS_InitMempool
<1>6. PoolDataTyped
  BY <1>4, <1>5 DEF PoolInit, SyncInit, PoolDataTyped, Pointers
<1>7. ItemsKnown /\ PlacesDiffer /\ SomePlace
  BY <1>2, <1>4, <1>5 DEF ItemsKnown, PlacesDiffer, SomePlace, InHand
<1> QED
  BY <1>1, <1>3, <1>4, <1>6, <1>7 DEF PoolInv, PoolControl, PoolData

-----------------------------------------------------------------------------
\* The part about the pool.

\* A step that does not touch the pool.
LEMMA QuietStepData ==
  ASSUME PoolDataTyped, PoolData, stage' = stage, UNCHANGED poolData
  PROVE  PoolDataTyped' /\ PoolData'
<1>1. head' = head /\ next' = next /\ item' = item /\ owned' = owned
  BY DEF poolData
<1>2. ListEnds' /\ FreeBlocks' = FreeBlocks
  BY <1>1, ListStays DEF PoolData
<1> QED
  BY <1>1, <1>2
  DEF PoolDataTyped, PoolData, ItemsKnown, PlacesDiffer, SomePlace, InHand, DataOf, Pointers

\* A step that makes a call.
LEMMA CallStepData ==
  ASSUME PoolInv, NEW t \in Tasks, PoolCallStep(t)
  PROVE  PoolDataTyped' /\ PoolData' /\ FreeBlocks' = FreeBlocks
<1> USE DEF PoolInv
<1>1. /\ stage' = [stage EXCEPT ![t] = stage'[t]]
      /\ \/ stage[t] = "none" /\ stage'[t] \in {"ma_test", "da_link"}
         \/ stage[t] \in {"ma_test", "ma_lock"} /\ stage'[t] \in {"ma_lock", "ma_data"}
         \/ stage[t] = "ma_unlock" /\ stage'[t] = "ma_take"
         \/ stage[t] = "da_unlock" /\ stage'[t] = "da_give"
         \/ stage[t] = "ma_take" /\ stage'[t] = "ma_end"
         \/ stage[t] = "da_give" /\ stage'[t] = "da_end"
  BY PoolCallMoves DEF PoolControl
<1>2. \A u \in Tasks \ {t} : stage'[u] = stage[u]
  BY <1>1 DEF PoolDataTyped
<1>3. head' = head /\ next' = next
  BY DEF PoolCallStep, OS_Malloc, MaTest, MaLock, MaUnlock, MaTake, OS_Dalloc, DaUnlock, DaGive,
         poolData
<1>4. ListEnds' /\ FreeBlocks' = FreeBlocks
  BY <1>3, ListStays DEF PoolData
<1>5. CASE item' = item /\ owned' = owned /\ stage'[t] # "da_link"
  <2>1. \A u \in Tasks, b \in Blocks : InHand(u, b)' <=> InHand(u, b)
    BY <1>1, <1>2, <1>5 DEF InHand
  <2>2. ItemsKnown'
    BY <1>1, <1>2, <1>3, <1>5 DEF PoolData, ItemsKnown, DataOf
  <2>3. PlacesDiffer' /\ SomePlace'
    BY <1>4, <1>5, <2>1 DEF PoolData, PlacesDiffer, SomePlace
  <2>4. PoolDataTyped'
    BY <1>1, <1>3, <1>5 DEF PoolDataTyped, Pointers, MallocStages, DallocStages
  <2> QED
    BY <1>4, <2>2, <2>3, <2>4 DEF PoolData
<1>6. ASSUME NEW b \in Blocks, OS_Dalloc(t, b) PROVE PoolDataTyped' /\ PoolData'
  <2>1. PICK u \in Tasks : b \in owned[u] /\ owned' = [owned EXCEPT ![u] = @ \ {b}]
    BY <1>6 DEF OS_Dalloc
  <2>2. /\ item' = [item EXCEPT ![t] = b] /\ item'[t] = b
        /\ stage[t] = "none" /\ stage'[t] = "da_link"
    BY <1>6 DEF OS_Dalloc, AtStage, Enter, ToStage, PoolDataTyped
  <2>3. \A v \in Tasks \ {t} : item'[v] = item[v]
    BY <2>2 DEF PoolDataTyped
  <2>4. \A v \in Tasks : owned'[v] = IF v = u THEN owned[v] \ {b} ELSE owned[v]
    BY <2>1 DEF PoolDataTyped
  <2>5. \A v \in Tasks, c \in Blocks :
          InHand(v, c)' <=> InHand(v, c) \/ (v = t /\ c = b)
    BY <1>2, <2>2, <2>3 DEF InHand
  <2>6. ItemsKnown'
    BY <1>2, <1>3, <2>2, <2>3 DEF PoolData, ItemsKnown, DataOf
  <2>7. /\ \A v \in Tasks : ~InHand(v, b)
        /\ \A v \in Tasks : b \in owned[v] => v = u
        /\ b \notin FreeBlocks
    BY <2>1 DEF PoolData, PlacesDiffer
  <2>8. PlacesDiffer'
    <3>1. \A v \in Tasks, c \in Blocks :
            c \in owned'[v] <=> c \in owned[v] /\ c # b
      BY <2>4, <2>7
    <3>2. \A c \in Blocks : \A v, w \in Tasks : InHand(v, c)' /\ InHand(w, c)' => v = w
      BY <2>5, <2>7 DEF PoolData, PlacesDiffer
    <3>3. \A c \in Blocks : \A v, w \in Tasks : c \in owned'[v] /\ c \in owned'[w] => v = w
      BY <3>1 DEF PoolData, PlacesDiffer
    <3>4. \A c \in Blocks : \A v, w \in Tasks : ~(InHand(v, c)' /\ c \in owned'[w])
      BY <2>5, <3>1 DEF PoolData, PlacesDiffer
    <3>5. \A c \in Blocks : \A v \in Tasks :
            InHand(v, c)' \/ c \in owned'[v] => c \notin FreeBlocks'
      BY <1>4, <2>5, <2>7, <3>1 DEF PoolData, PlacesDiffer
    <3> QED
      BY <3>2, <3>3, <3>4, <3>5 DEF PlacesDiffer
  <2>9. SomePlace'
    BY <1>4, <2>4, <2>5 DEF PoolData, SomePlace
  <2>10. PoolDataTyped'
    BY <1>1, <1>3, <2>1, <2>2 DEF PoolDataTyped, Pointers, MallocStages, DallocStages
  <2> QED
    BY <1>4, <2>6, <2>8, <2>9, <2>10 DEF PoolData
<1>7. CASE OS_Malloc(t)
  BY <1>1, <1>5, <1>7
  DEF OS_Malloc, CallCounting, AtStage, ToStage, PoolDataTyped, poolData
<1>8. CASE MaTest(t) \/ MaLock(t) \/ MaUnlock(t) \/ MaTake(t) \/ DaUnlock(t) \/ DaGive(t)
  <2>1. item' = item /\ owned' = owned
    BY <1>8 DEF MaTest, MaLock, MaUnlock, MaTake, DaUnlock, DaGive, poolData
  <2>2. stage[t] # "none"
    BY <1>8 DEF MaTest, MaLock, MaUnlock, MaTake, DaUnlock, DaGive, WaitOrLock,
      CallMutexAquire, CallMutexRelease, CallSemaphoreAquire, CallSemaphoreRelease, AtStage
  <2> QED
    BY <1>1, <1>5, <2>1, <2>2
<1> QED
  BY <1>4, <1>6, <1>7, <1>8 DEF PoolCallStep

\* A step on the pool itself moves its task alone, which is the only one Inside.
LEMMA OwnStepAlone ==
  ASSUME PoolInv, NEW t \in Tasks, PoolOwnStep(t)
  PROVE  /\ pc[t] = "user" /\ pc' = pc /\ counter' = counter
         /\ \A u \in Tasks \ {t} : stage'[u] = stage[u]
         /\ \A u \in Tasks \ {t} : Inside(t) => ~Inside(u)
BY InsideAlone, PoolOwnMoves DEF PoolInv, PoolDataTyped

\* OS_Malloc reads the head, and takes it off.
LEMMA DataStepData ==
  ASSUME PoolInv, NEW t \in Tasks, MaData(t)
  PROVE  PoolDataTyped' /\ PoolData' /\ FreeBlocks' = FreeBlocks
<1> USE DEF PoolInv
<1>1. /\ stage[t] = "ma_data" /\ stage' = [stage EXCEPT ![t] = "ma_next"]
      /\ item' = [item EXCEPT ![t] = DataOf(head)]
      /\ head' = head /\ next' = next /\ owned' = owned
      /\ stage'[t] = "ma_next" /\ item'[t] = DataOf(head)
  BY DEF MaData, OwnStep, AtStage, ToStage, PoolDataTyped
<1>2. \A u \in Tasks \ {t} : stage'[u] = stage[u] /\ item'[u] = item[u]
  BY <1>1 DEF PoolDataTyped
<1>3. DataOf(head) \in Pointers /\ DataOf(head) # Nil /\ DataOf(head)' = DataOf(head)
  BY <1>1, MemPoolAssumption DEF DataOf, Pointers
<1>4. ListEnds' /\ FreeBlocks' = FreeBlocks
  BY <1>1, ListStays DEF PoolData
<1>5. \A u \in Tasks, b \in Blocks : InHand(u, b)' <=> InHand(u, b)
  BY <1>1, <1>2 DEF InHand
<1>6. ItemsKnown'
  BY <1>1, <1>2, <1>3 DEF PoolData, ItemsKnown
<1>7. PlacesDiffer' /\ SomePlace'
  BY <1>1, <1>4, <1>5 DEF PoolData, PlacesDiffer, SomePlace
<1>8. PoolDataTyped'
  BY <1>1, <1>3 DEF PoolDataTyped, Pointers, MallocStages
<1> QED
  BY <1>4, <1>6, <1>7, <1>8 DEF PoolData

LEMMA NextStepData ==
  ASSUME PoolInv, NEW t \in Tasks, MaNext(t)
  PROVE  /\ PoolDataTyped' /\ PoolData'
         /\ item[t] = DataOf(head) /\ FreeBlocks' = FreeBlocks \ {head}
         /\ IF head \in Blocks THEN head \in FreeBlocks ELSE FreeBlocks = {}
<1> USE DEF PoolInv
<1>1. /\ stage[t] = "ma_next" /\ stage' = [stage EXCEPT ![t] = "ma_unlock"]
      /\ head' = NextOf(head) /\ next' = next /\ item' = item /\ owned' = owned
      /\ stage'[t] = "ma_unlock"
  BY DEF MaNext, OwnStep, AtStage, ToStage, PoolDataTyped
<1>2. /\ \A u \in Tasks \ {t} : stage'[u] = stage[u]
      /\ \A u \in Tasks \ {t} : ~Inside(u)
  BY <1>1, OwnStepAlone DEF PoolOwnStep, Inside
<1>3. item[t] = DataOf(head) /\ item[t] # Nil
  BY <1>1 DEF PoolData, ItemsKnown
<1>4. /\ ListEnds' /\ FreeBlocks' = FreeBlocks \ {head}
      /\ IF head \in Blocks THEN head \in FreeBlocks ELSE FreeBlocks = {}
  BY <1>1, ListPop DEF PoolData
<1>5. \A b \in Blocks : item[t] = b <=> head = b
  BY <1>3, MemPoolAssumption DEF DataOf
<1>6. \A u \in Tasks, b \in Blocks : InHand(u, b)' <=> InHand(u, b) \/ (u = t /\ b = head)
  BY <1>1, <1>2, <1>5 DEF InHand
<1>7. ItemsKnown'
  BY <1>1, <1>2, <1>3 DEF PoolData, ItemsKnown, Inside
<1>8. \A b \in Blocks : b = head => \A u \in Tasks : ~InHand(u, b) /\ b \notin owned[u]
  BY <1>4 DEF PoolData, PlacesDiffer
<1>9. PlacesDiffer'
  BY <1>1, <1>4, <1>6, <1>8 DEF PoolData, PlacesDiffer
<1>10. SomePlace'
  BY <1>1, <1>4, <1>6 DEF PoolData, SomePlace
<1>11. PoolDataTyped'
  BY <1>1 DEF PoolDataTyped, Pointers, MallocStages, NextOf
<1> QED
  BY <1>3, <1>4, <1>7, <1>9, <1>10, <1>11 DEF PoolData

\* The block is the caller's.
LEMMA ReturnStepData ==
  ASSUME PoolInv, NEW t \in Tasks, MaReturn(t)
  PROVE  PoolDataTyped' /\ PoolData' /\ FreeBlocks' = FreeBlocks
<1> USE DEF PoolInv
<1>1. /\ stage[t] = "ma_end" /\ stage' = [stage EXCEPT ![t] = "none"]
      /\ owned' = [owned EXCEPT ![t] = @ \cup {item[t]}]
      /\ next' = IF item[t] \in Blocks THEN [next EXCEPT ![item[t]] = VectorWord] ELSE next
      /\ item' = [item EXCEPT ![t] = Nil]
      /\ head' = head
      /\ stage'[t] = "none" /\ item'[t] = Nil
  BY DEF MaReturn, OwnStep, AtStage, ToStage, PoolDataTyped
<1>2. \A u \in Tasks \ {t} : stage'[u] = stage[u] /\ item'[u] = item[u]
  BY <1>1 DEF PoolDataTyped
<1>3. item[t] # Nil /\ \A b \in Blocks : InHand(t, b) <=> b = item[t]
  BY <1>1 DEF PoolData, ItemsKnown, InHand
<1>4. \A b \in Blocks : b # item[t] => next'[b] = next[b]
  BY <1>1 DEF PoolDataTyped
<1>5. \A b \in FreeBlocks : b \in Blocks /\ b # item[t]
  BY <1>3 DEF PoolData, PlacesDiffer, FreeBlocks
<1>6. ListEnds' /\ FreeBlocks' = FreeBlocks
  BY <1>1, <1>4, <1>5, ListStays DEF PoolData
<1>7. \A u \in Tasks, b \in Blocks : InHand(u, b)' <=> InHand(u, b) /\ u # t
  BY <1>1, <1>2 DEF InHand
<1>8. \A u \in Tasks, b \in Blocks :
        b \in owned'[u] <=> b \in owned[u] \/ (u = t /\ b = item[t])
  BY <1>1 DEF PoolDataTyped
<1>9. ItemsKnown'
  <2>1. \A u \in Tasks \ {t} : stage[u] = "da_push" => next'[item[u]] = next[item[u]]
    <3> SUFFICES ASSUME NEW u \in Tasks \ {t}, stage[u] = "da_push"
                 PROVE  item[u] \in Blocks /\ item[u] # item[t]
      BY <1>4
    <3>1. item[u] \in Blocks /\ InHand(u, item[u])
      BY DEF PoolData, ItemsKnown, InHand
    <3> QED
      BY <1>3, <3>1 DEF PoolData, PlacesDiffer
  <2> QED
    BY <1>1, <1>2, <2>1 DEF PoolData, ItemsKnown, DataOf
<1>10. PlacesDiffer'
  BY <1>3, <1>6, <1>7, <1>8 DEF PoolData, PlacesDiffer
<1>11. SomePlace'
  BY <1>3, <1>6, <1>7, <1>8 DEF PoolData, SomePlace
<1>12. PoolDataTyped'
  BY <1>1, <1>3 DEF PoolDataTyped, Pointers
<1> QED
  BY <1>6, <1>9, <1>10, <1>11, <1>12 DEF PoolData

\* OS_Dalloc links the block to the list, and makes it the head.
LEMMA LinkStepData ==
  ASSUME PoolInv, NEW t \in Tasks, DaLink(t)
  PROVE  PoolDataTyped' /\ PoolData' /\ FreeBlocks' = FreeBlocks
<1> USE DEF PoolInv
<1>1. /\ stage[t] = "da_link" /\ stage' = [stage EXCEPT ![t] = "da_push"]
      /\ next' = [next EXCEPT ![item[t]] = head]
      /\ head' = head /\ item' = item /\ owned' = owned
      /\ stage'[t] = "da_push"
  BY DEF DaLink, OwnStep, AtStage, ToStage, PoolDataTyped
<1>2. /\ \A u \in Tasks \ {t} : stage'[u] = stage[u]
      /\ \A u \in Tasks \ {t} : ~Inside(u)
  BY <1>1, OwnStepAlone DEF PoolOwnStep, Inside
<1>3. item[t] \in Blocks /\ InHand(t, item[t])
  BY <1>1 DEF PoolData, ItemsKnown, InHand
<1>4. /\ next'[item[t]] = head
      /\ \A b \in Blocks : b # item[t] => next'[b] = next[b]
  BY <1>1, <1>3 DEF PoolDataTyped
<1>5. \A b \in FreeBlocks : b \in Blocks /\ b # item[t]
  BY <1>3 DEF PoolData, PlacesDiffer, FreeBlocks
<1>6. ListEnds' /\ FreeBlocks' = FreeBlocks
  BY <1>1, <1>4, <1>5, ListStays DEF PoolData
<1>7. \A u \in Tasks, b \in Blocks : InHand(u, b)' <=> InHand(u, b)
  BY <1>1, <1>2 DEF InHand
<1>8. ItemsKnown'
  BY <1>1, <1>2, <1>3, <1>4 DEF PoolData, ItemsKnown, Inside
<1>9. PlacesDiffer' /\ SomePlace'
  BY <1>1, <1>6, <1>7 DEF PoolData, PlacesDiffer, SomePlace
<1>10. PoolDataTyped'
  BY <1>1, <1>3 DEF PoolDataTyped, Pointers, DallocStages
<1> QED
  BY <1>6, <1>8, <1>9, <1>10 DEF PoolData

LEMMA PushStepData ==
  ASSUME PoolInv, NEW t \in Tasks, DaPush(t)
  PROVE  /\ PoolDataTyped' /\ PoolData'
         /\ item[t] \notin FreeBlocks /\ FreeBlocks' = FreeBlocks \cup {item[t]}
<1> USE DEF PoolInv
<1>1. /\ stage[t] = "da_push" /\ stage' = [stage EXCEPT ![t] = "da_unlock"]
      /\ head' = item[t] /\ next' = next /\ item' = item /\ owned' = owned
      /\ stage'[t] = "da_unlock"
  BY DEF DaPush, OwnStep, AtStage, ToStage, PoolDataTyped
<1>2. /\ \A u \in Tasks \ {t} : stage'[u] = stage[u]
      /\ \A u \in Tasks \ {t} : ~Inside(u)
  BY <1>1, OwnStepAlone DEF PoolOwnStep, Inside
<1>3. item[t] \in Blocks /\ next[item[t]] = head /\ InHand(t, item[t])
  BY <1>1 DEF PoolData, ItemsKnown, InHand
<1>4. item[t] \notin FreeBlocks
  BY <1>3 DEF PoolData, PlacesDiffer
<1>5. ListEnds' /\ FreeBlocks' = FreeBlocks \cup {item[t]}
  BY <1>1, <1>3, <1>4, ListPush DEF PoolData
<1>6. \A u \in Tasks, b \in Blocks : InHand(u, b)' <=> InHand(u, b) /\ u # t
  BY <1>1, <1>2 DEF InHand
<1>7. \A u \in Tasks : InHand(u, item[t]) => u = t
  BY <1>3 DEF PoolData, PlacesDiffer
<1>8. ItemsKnown'
  BY <1>1, <1>2 DEF PoolData, ItemsKnown, Inside
<1>9. PlacesDiffer'
  BY <1>1, <1>3, <1>5, <1>6, <1>7 DEF PoolData, PlacesDiffer
<1>10. SomePlace'
  <2>1. \A b \in Blocks : InHand(t, b) => b = item[t]
    BY DEF InHand
  <2> QED
    BY <1>1, <1>5, <1>6, <2>1 DEF PoolData, SomePlace
<1>11. PoolDataTyped'
  BY <1>1, <1>3 DEF PoolDataTyped, Pointers, DallocStages
<1> QED
  BY <1>4, <1>5, <1>8, <1>9, <1>10, <1>11 DEF PoolData

LEMMA EndStepData ==
  ASSUME PoolInv, NEW t \in Tasks, DaReturn(t)
  PROVE  PoolDataTyped' /\ PoolData' /\ FreeBlocks' = FreeBlocks
<1> USE DEF PoolInv
<1>1. /\ stage[t] = "da_end" /\ stage' = [stage EXCEPT ![t] = "none"]
      /\ item' = [item EXCEPT ![t] = Nil]
      /\ head' = head /\ next' = next /\ owned' = owned
      /\ stage'[t] = "none"
  BY DEF DaReturn, OwnStep, AtStage, ToStage, PoolDataTyped
<1>2. \A u \in Tasks \ {t} : stage'[u] = stage[u] /\ item'[u] = item[u]
  BY <1>1 DEF PoolDataTyped
<1>3. ListEnds' /\ FreeBlocks' = FreeBlocks
  BY <1>1, ListStays DEF PoolData
<1>4. \A u \in Tasks, b \in Blocks : InHand(u, b)' <=> InHand(u, b)
  BY <1>1, <1>2 DEF InHand
<1>5. ItemsKnown'
  BY <1>1, <1>2 DEF PoolData, ItemsKnown, DataOf
<1>6. PlacesDiffer' /\ SomePlace'
  BY <1>1, <1>3, <1>4 DEF PoolData, PlacesDiffer, SomePlace
<1>7. PoolDataTyped'
  BY <1>1 DEF PoolDataTyped, Pointers
<1> QED
  BY <1>3, <1>5, <1>6, <1>7 DEF PoolData

-----------------------------------------------------------------------------
\* The theorems.

LEMMA PoolNextInv == ASSUME PoolInv, [PoolNext]_poolVars PROVE PoolInv'
<1>1. PoolControl'
  BY PoolNextControl DEF PoolInv
<1>2. PoolDataTyped' /\ PoolData'
  <2>1. CASE stage' = stage /\ UNCHANGED poolData
    BY <2>1, QuietStepData DEF PoolInv
  <2>2. ASSUME NEW t \in Tasks, PoolStep(t) PROVE PoolDataTyped' /\ PoolData'
    BY <2>2, PoolSteps, CallStepData, DataStepData, NextStepData, ReturnStepData,
       LinkStepData, PushStepData, EndStepData
    DEF PoolOwnStep
  <2> QED
    BY <2>1, <2>2 DEF PoolNext, PoolThread, InnerStep, OuterStep, poolVars
<1> QED
  BY <1>1, <1>2 DEF PoolInv

LEMMA PoolInvariant == PoolSpec => []PoolInv
BY PoolInitInv, PoolNextInv, PTL DEF PoolSpec

\* The pool, its calls and the kernel under them are well typed in every reachable
\* state: the head and the next fields hold blocks, the null pointer or, once it was
\* followed, what the vector table holds (OS_Malloc, OS_Dalloc).
THEOREM PoolTypeCorrect == PoolSpec => []PoolTypeOK
<1>1. PoolInv => PoolTypeOK
  BY DEF PoolInv, PoolControl, SyncKept, SyncShape, MutexShape, KernelTyped, PoolDataTyped,
         PoolTypeOK, Pointers
<1> QED
  BY <1>1, PoolInvariant, PTL

\* Every block is in the free list, in the hands of one call or allocated to one task,
\* and nowhere twice, and the list ends: no interleaving of OS_Malloc and OS_Dalloc
\* hands a block out twice, loses it or ties the list into a loop.
THEOREM BlocksKept == PoolSpec => []BlockInOnePlace
<1>1. ASSUME PoolInv PROVE BlockInOnePlace
  <2>1. Chain[Cardinality(Blocks)] \notin Blocks
    BY <1>1, ListChain DEF PoolInv, PoolData, ListEnds, ListKnown
  <2>2. ASSUME NEW b \in Blocks
        PROVE  Cardinality({t \in Tasks : InHand(t, b)})
                 + Cardinality({t \in Tasks : b \in owned[t]})
                 + (IF b \in FreeBlocks THEN 1 ELSE 0) = 1
    <3> DEFINE hands == {t \in Tasks : InHand(t, b)}
               owners == {t \in Tasks : b \in owned[t]}
    <3>1. Cardinality({}) = 0 /\ \A t : Cardinality({t}) = 1
      BY FS_EmptySet, FS_Singleton
    <3>2. ASSUME b \in FreeBlocks PROVE hands = {} /\ owners = {}
      BY <1>1, <3>2 DEF PoolInv, PoolData, PlacesDiffer
    <3>3. ASSUME NEW t \in Tasks, InHand(t, b)
          PROVE  hands = {t} /\ owners = {} /\ b \notin FreeBlocks
      BY <1>1, <3>3 DEF PoolInv, PoolData, PlacesDiffer
    <3>4. ASSUME NEW t \in Tasks, b \in owned[t]
          PROVE  hands = {} /\ owners = {t} /\ b \notin FreeBlocks
      BY <1>1, <3>4 DEF PoolInv, PoolData, PlacesDiffer
    <3>5. b \in FreeBlocks \/ \E t \in Tasks : InHand(t, b) \/ b \in owned[t]
      BY <1>1 DEF PoolInv, PoolData, SomePlace
    <3> HIDE DEF hands, owners
    <3>6. Cardinality(hands) + Cardinality(owners) + (IF b \in FreeBlocks THEN 1 ELSE 0) = 1
      <4>1. CASE b \in FreeBlocks
        BY <3>1, <3>2, <4>1
      <4>2. CASE \E t \in Tasks : InHand(t, b)
        <5> PICK t \in Tasks : InHand(t, b)
          BY <4>2
        <5>1. hands = {t} /\ owners = {} /\ b \notin FreeBlocks
          BY <3>3
        <5>2. Cardinality(hands) = 1 /\ Cardinality(owners) = 0
          BY <3>1, <5>1
        <5> QED
          BY <5>1, <5>2
      <4>3. CASE \E t \in Tasks : b \in owned[t]
        <5> PICK t \in Tasks : b \in owned[t]
          BY <4>3
        <5>1. hands = {} /\ owners = {t} /\ b \notin FreeBlocks
          BY <3>4
        <5>2. Cardinality(hands) = 0 /\ Cardinality(owners) = 1
          BY <3>1, <5>1
        <5> QED
          BY <5>1, <5>2
      <4> QED
        BY <3>5, <4>1, <4>2, <4>3
    <3> QED
      BY <3>6 DEF hands, owners
  <2> QED
    BY <2>1, <2>2 DEF BlockInOnePlace
<1> QED
  BY <1>1, PoolInvariant, PTL

-----------------------------------------------------------------------------
\* The semaphore and the free blocks.

LEMMA FreeFinite == IsFiniteSet(FreeBlocks) /\ Cardinality(FreeBlocks) \in Nat
<1>1. FreeBlocks \in SUBSET Blocks
  BY DEF FreeBlocks
<1> QED
  BY <1>1, BlocksFinite, FS_Subset, FS_CardinalityType

\* The numbers the count compares.
LEMMA CountedSizes ==
  ASSUME PoolControl, BlocksCounted
  PROVE  /\ IsFiniteSet(Popping) /\ Cardinality(Popping) \in Nat
         /\ IsFiniteSet(Pushing) /\ Cardinality(Pushing) \in Nat
         /\ IsFiniteSet(FreeBlocks) /\ Cardinality(FreeBlocks) \in Nat
         /\ counter[PoolSem] \in Nat
         /\ counter[PoolSem] + Cardinality(Pushing)
              <= Cardinality(FreeBlocks) + Cardinality(Popping)
BY FreeFinite, FS_CardinalityType, MemPoolAssumption, CounterWidth
DEF BlocksCounted, PoolControl, SyncKept, SyncShape, SemShape, CountersTyped

\* A step that leaves the list and the counter alone, and no task's part in the count.
LEMMA CountStays ==
  ASSUME BlocksCounted, FreeBlocks' = FreeBlocks, counter'[PoolSem] = counter[PoolSem],
         Popping' = Popping, Pushing' = Pushing
  PROVE  BlocksCounted'
BY DEF BlocksCounted

\* A step of a call in progress.
LEMMA InnerStepCounted ==
  ASSUME PoolInv, BlocksCounted, NEW t \in Tasks, InnerStep(t), UNCHANGED poolData
  PROVE  BlocksCounted'
<1> USE DEF PoolInv, PoolControl
<1>1. stage' = stage /\ item' = item /\ FreeBlocks' = FreeBlocks
  BY ListStays DEF InnerStep, poolData, PoolData
<1>2. \A u \in Tasks \ {t} : pc'[u] = pc[u]
  BY InnerStepOthers
<1>3. \A u \in Tasks \ {t} : (u \in Popping' <=> u \in Popping) /\ (u \in Pushing' <=> u \in Pushing)
  BY <1>1, <1>2 DEF Popping, Pushing
<1>4. /\ pc[t] \notin SemAcquireLabels => pc'[t] \notin SemAcquireLabels
      /\ pc[t] \notin {"sr_ldrex", "sr_strex"} => pc'[t] \notin {"sr_ldrex", "sr_strex"}
  BY InnerStepPast
<1>5. (t \in Popping' => t \in Popping) /\ (t \in Pushing' => t \in Pushing)
  BY <1>1, <1>4 DEF Popping, Pushing
<1>6. /\ counter[PoolSem] \in Nat /\ counter'[PoolSem] \in Nat
      /\ pc[t] \in SemAcquireLabels /\ pc'[t] \notin SemAcquireLabels /\ arg[t] = PoolSem =>
           counter'[PoolSem] = counter[PoolSem] - 1
      /\ \/ counter'[PoolSem] <= counter[PoolSem]
         \/ /\ counter'[PoolSem] = counter[PoolSem] + 1 /\ arg[t] = PoolSem
            /\ pc[t] = "sr_strex" /\ pc'[t] \notin {"sr_ldrex", "sr_strex"}
  BY InnerStepCounter, MemPoolAssumption
<1>7. /\ IsFiniteSet(Popping) /\ Cardinality(Popping) \in Nat
      /\ IsFiniteSet(Pushing) /\ Cardinality(Pushing) \in Nat
      /\ Cardinality(FreeBlocks) \in Nat
      /\ counter[PoolSem] + Cardinality(Pushing)
           <= Cardinality(FreeBlocks) + Cardinality(Popping)
  BY CountedSizes
<1>8. CASE t \in Popping /\ t \notin Popping'
  <2>1. pc[t] \in SemAcquireLabels /\ pc'[t] \notin SemAcquireLabels /\ stage[t] = "ma_end"
    BY <1>1, <1>8 DEF Popping
  <2>2. arg[t] = PoolSem
    BY <2>1 DEF PoolCalls, Taking
  <2>3. counter'[PoolSem] = counter[PoolSem] - 1
    BY <1>6, <2>1, <2>2
  <2>4. t \notin Pushing /\ t \notin Pushing'
    BY <1>1, <2>1 DEF Pushing
  <2>5. Pushing' = Pushing /\ Popping' = Popping \ {t}
    BY <1>3, <1>8, <2>4 DEF Popping, Pushing
  <2>6. /\ IsFiniteSet(Popping \ {t})
        /\ Cardinality(Popping \ {t}) = Cardinality(Popping) - 1
    BY <1>7, <1>8, FS_RemoveElement
  <2> QED
    BY <1>1, <1>6, <1>7, <2>3, <2>5, <2>6 DEF BlocksCounted
<1>9. CASE ~(t \in Popping /\ t \notin Popping')
  <2>1. Popping' = Popping
    BY <1>3, <1>5, <1>9 DEF Popping
  <2>2. CASE t \in Pushing /\ t \notin Pushing'
    <3>1. Pushing' = Pushing \ {t}
      BY <1>3, <2>2 DEF Pushing
    <3>2. /\ IsFiniteSet(Pushing \ {t})
          /\ Cardinality(Pushing \ {t}) = Cardinality(Pushing) - 1
      BY <1>7, <2>2, FS_RemoveElement
    <3> QED
      BY <1>1, <1>6, <1>7, <2>1, <3>1, <3>2 DEF BlocksCounted
  <2>3. CASE ~(t \in Pushing /\ t \notin Pushing')
    <3>1. Pushing' = Pushing
      BY <1>3, <1>5, <2>3 DEF Pushing
    <3>2. counter'[PoolSem] <= counter[PoolSem]
      <4> SUFFICES ASSUME arg[t] = PoolSem, pc[t] = "sr_strex",
                          pc'[t] \notin {"sr_ldrex", "sr_strex"}
                   PROVE  FALSE
        BY <1>6
      <4>1. stage[t] = "da_end"
        BY DEF PoolCalls, Giving
      <4> QED
        BY <1>1, <2>3, <4>1 DEF Pushing
    <3> QED
      BY <1>1, <1>6, <1>7, <2>1, <3>1, <3>2 DEF BlocksCounted
  <2> QED
    BY <2>2, <2>3
<1> QED
  BY <1>8, <1>9

\* A step that makes a call.
LEMMA CallStepCounted ==
  ASSUME PoolInv, BlocksCounted, NEW t \in Tasks, PoolCallStep(t)
  PROVE  BlocksCounted'
<1> USE DEF PoolInv, PoolControl
<1>1. /\ \A u \in Tasks \ {t} : stage'[u] = stage[u] /\ pc'[u] = pc[u]
      /\ pc[t] = "user" /\ counter' = counter
  BY PoolCallMoves, EntriesMove DEF PoolDataTyped
<1>2. head' = head /\ next' = next
  BY DEF PoolCallStep, OS_Malloc, MaTest, MaLock, MaUnlock, MaTake, OS_Dalloc, DaUnlock, DaGive,
         poolData
<1>3. /\ \A u \in Tasks \ {t} : item'[u] = item[u]
      /\ item' = item \/ stage'[t] = "da_link"
  <2>1. CASE \E b \in Blocks : OS_Dalloc(t, b)
    BY <2>1 DEF OS_Dalloc, Enter, ToStage, PoolDataTyped
  <2>2. CASE ~\E b \in Blocks : OS_Dalloc(t, b)
    BY <2>2 DEF PoolCallStep, OS_Malloc, MaTest, MaLock, MaUnlock, MaTake, DaUnlock, DaGive,
                poolData
  <2> QED
    BY <2>1, <2>2
<1>4. FreeBlocks' = FreeBlocks
  BY CallStepData
<1>5. (t \in Popping' <=> t \in Popping) /\ (t \in Pushing' <=> t \in Pushing)
  BY <1>1, <1>3, PoolCallMoves DEF Popping, Pushing, SemAcquireLabels
<1>6. Popping' = Popping /\ Pushing' = Pushing
  BY <1>1, <1>3, <1>5 DEF Popping, Pushing
<1> QED
  BY <1>1, <1>4, <1>6, CountStays

\* A step on the pool itself.
LEMMA OwnStepCounted ==
  ASSUME PoolInv, BlocksCounted, NEW t \in Tasks, PoolOwnStep(t)
  PROVE  BlocksCounted'
<1> USE DEF PoolInv
<1>1. /\ \A u \in Tasks \ {t} : stage'[u] = stage[u] /\ pc'[u] = pc[u] /\ item'[u] = item[u]
      /\ pc[t] = "user" /\ pc'[t] = "user" /\ counter' = counter
  <2>1. \A u \in Tasks \ {t} : item'[u] = item[u]
    BY DEF PoolOwnStep, MaData, MaNext, MaReturn, DaLink, DaPush, DaReturn, PoolDataTyped
  <2> QED
    BY <2>1, OwnStepAlone
<1>2. \A u \in Tasks \ {t} : (u \in Popping' <=> u \in Popping) /\ (u \in Pushing' <=> u \in Pushing)
  BY <1>1 DEF Popping, Pushing
<1>3. /\ IsFiniteSet(Popping) /\ Cardinality(Popping) \in Nat
      /\ IsFiniteSet(Pushing) /\ Cardinality(Pushing) \in Nat
      /\ IsFiniteSet(FreeBlocks) /\ Cardinality(FreeBlocks) \in Nat
      /\ counter[PoolSem] \in Nat
      /\ counter[PoolSem] + Cardinality(Pushing)
           <= Cardinality(FreeBlocks) + Cardinality(Popping)
  BY CountedSizes
<1>4. t \notin Popping /\ t \notin Pushing
  BY <1>1, PoolOwnMoves DEF Popping, Pushing, SemAcquireLabels
<1>5. CASE MaNext(t)
  <2>1. /\ stage[t] = "ma_next" /\ stage'[t] = "ma_unlock" /\ item' = item
        /\ head' = NextOf(head) /\ next' = next
    BY <1>5 DEF MaNext, OwnStep, AtStage, ToStage, PoolDataTyped
  <2>2. \A b \in Blocks : item[t] = b <=> head = b
    BY <1>5, NextStepData, MemPoolAssumption DEF DataOf
  <2>3. /\ FreeBlocks' = FreeBlocks \ {head}
        /\ head \in Blocks => head \in FreeBlocks
    BY <1>5, NextStepData
  <2>4. Pushing' = Pushing
    BY <1>2, <1>4, <2>1 DEF Pushing
  <2>5. CASE head \in Blocks
    <3>1. Popping' = Popping \cup {t}
      BY <1>2, <2>1, <2>2, <2>5 DEF Popping
    <3>2. /\ IsFiniteSet(Popping \cup {t})
          /\ Cardinality(Popping \cup {t}) = Cardinality(Popping) + 1
          /\ Cardinality(FreeBlocks \ {head}) = Cardinality(FreeBlocks) - 1
      BY <1>3, <1>4, <2>3, <2>5, FS_AddElement, FS_RemoveElement
    <3> QED
      BY <1>1, <1>3, <2>3, <2>4, <3>1, <3>2 DEF BlocksCounted
  <2>6. CASE head \notin Blocks
    <3>1. t \notin Popping'
      BY <2>1, <2>2, <2>6 DEF Popping
    <3>2. Popping' = Popping
      BY <1>2, <1>4, <3>1 DEF Popping
    <3>3. FreeBlocks' = FreeBlocks
      BY <2>3, <2>6 DEF FreeBlocks
    <3> QED
      BY <1>1, <2>4, <3>2, <3>3, CountStays
  <2> QED
    BY <2>5, <2>6
<1>6. CASE DaPush(t)
  <2>1. item[t] \notin FreeBlocks /\ FreeBlocks' = FreeBlocks \cup {item[t]}
    BY <1>6, PushStepData
  <2>2. stage'[t] = "da_unlock"
    BY <1>6 DEF DaPush, OwnStep, ToStage, PoolDataTyped
  <2>3. Pushing' = Pushing \cup {t} /\ Popping' = Popping
    BY <1>2, <1>4, <2>2 DEF Popping, Pushing
  <2>4. /\ IsFiniteSet(Pushing \cup {t})
        /\ Cardinality(Pushing \cup {t}) = Cardinality(Pushing) + 1
        /\ Cardinality(FreeBlocks \cup {item[t]}) = Cardinality(FreeBlocks) + 1
    BY <1>3, <1>4, <2>1, FS_AddElement
  <2> QED
    BY <1>1, <1>3, <2>1, <2>3, <2>4 DEF BlocksCounted
<1>7. CASE MaData(t) \/ MaReturn(t) \/ DaLink(t) \/ DaReturn(t)
  <2>1. FreeBlocks' = FreeBlocks
    BY <1>7, DataStepData, ReturnStepData, LinkStepData, EndStepData
  <2>2. stage'[t] \in {"ma_next", "da_push", "none"}
    BY <1>7 DEF MaData, MaReturn, DaLink, DaReturn, OwnStep, ToStage, PoolDataTyped
  <2>3. Popping' = Popping /\ Pushing' = Pushing
    BY <1>2, <1>4, <2>2 DEF Popping, Pushing
  <2> QED
    BY <1>1, <2>1, <2>3, CountStays
<1> QED
  BY <1>5, <1>6, <1>7 DEF PoolOwnStep

\* A step of the kernel, or of a task outside the functions.
LEMMA OtherStepCounted ==
  ASSUME PoolInv, BlocksCounted, UNCHANGED poolData,
         \/ Handlers /\ UNCHANGED <<syncVars, stage>>
         \/ \E t \in Tasks : OuterStep(t)
  PROVE  BlocksCounted'
<1>1. /\ stage' = stage /\ item' = item /\ head' = head /\ next' = next /\ counter' = counter
      /\ \A u \in Tasks : stage[u] # "none" => pc'[u] = pc[u]
  BY OtherStepCalls DEF PoolInv, PoolControl, syncVars, semVars, poolData
<1>2. Popping' = Popping /\ Pushing' = Pushing
  BY <1>1 DEF Popping, Pushing
<1>3. FreeBlocks' = FreeBlocks
  BY <1>1, ListStays DEF PoolInv, PoolData
<1> QED
  BY <1>1, <1>2, <1>3, CountStays

\* The semaphore never shows more free blocks than the list has, but for those just
\* being popped, whatever the interleaving of OS_Malloc and OS_Dalloc.
THEOREM FreeBlocksReal == PoolSpec => []NoPhantomBlock
<1>1. PoolInit => BlocksCounted
  <2> SUFFICES ASSUME PoolInit PROVE BlocksCounted
    OBVIOUS
  <2>1. Popping = {} /\ Pushing = {}
    BY DEF PoolInit, SyncInit, Popping, Pushing
  <2>2. FreeBlocks = Blocks /\ counter[PoolSem] = Resources[PoolSem]
    BY PoolInitList, MemPoolAssumption DEF PoolInit, SyncInit
  <2> QED
    BY <2>1, <2>2, BlocksFinite, FS_EmptySet DEF BlocksCounted
<1>2. ASSUME PoolInv, BlocksCounted, [PoolNext]_poolVars PROVE BlocksCounted'
  <2>1. CASE UNCHANGED poolVars
    <3>1. /\ stage' = stage /\ item' = item /\ head' = head /\ next' = next /\ pc' = pc
          /\ counter' = counter
      BY <2>1 DEF poolVars, poolData, syncVars, semVars, vars, taskVars
    <3>2. Popping' = Popping /\ Pushing' = Pushing
      BY <3>1 DEF Popping, Pushing
    <3>3. FreeBlocks' = FreeBlocks
      BY <1>2, <3>1, ListStays DEF PoolInv, PoolData
    <3> QED
      BY <1>2, <3>1, <3>2, <3>3, CountStays
  <2>2. CASE \/ Handlers /\ UNCHANGED <<syncVars, stage, poolData>>
             \/ \E t \in Tasks : OuterStep(t) /\ UNCHANGED poolData
    BY <1>2, <2>2, OtherStepCounted
  <2>3. ASSUME NEW t \in Tasks, (InnerStep(t) /\ UNCHANGED poolData) \/ PoolStep(t)
        PROVE  BlocksCounted'
    BY <1>2, <2>3, InnerStepCounted, CallStepCounted, OwnStepCounted, PoolSteps
  <2> QED
    BY <1>2, <2>1, <2>2, <2>3 DEF PoolNext, PoolThread
<1>3. PoolInv /\ BlocksCounted => NoPhantomBlock
  <2> SUFFICES ASSUME PoolInv, BlocksCounted PROVE NoPhantomBlock
    OBVIOUS
  <2>1. counter[PoolSem] <= Cardinality(FreeBlocks) + Cardinality(Popping)
    BY CountedSizes DEF PoolInv
  <2> QED
    BY <2>1 DEF NoPhantomBlock, Popping
<1> QED
  BY <1>1, <1>2, <1>3, PoolInvariant, PTL DEF PoolSpec

-----------------------------------------------------------------------------
\* The pool implements AllocatorSpec.

InCall(t) == IF AllocPhase(t) \in {"granted", "returning"} THEN item[t] ELSE Nil

AllocPhases == [t \in Tasks |-> AllocPhase(t)]

AllocHands == [t \in Tasks |-> InCall(t)]

AllocUnchanged == UNCHANGED <<FreeBlocks, owned, AllocPhases, AllocHands>>

\* A step of one task leaves the calls of the others where they are.
LEMMA AllocMoves ==
  ASSUME NEW t \in Tasks,
         \A u \in Tasks \ {t} : stage'[u] = stage[u] /\ item'[u] = item[u]
  PROVE  /\ AllocPhases' = [AllocPhases EXCEPT ![t] = AllocPhase(t)']
         /\ AllocHands' = [AllocHands EXCEPT ![t] = InCall(t)']
<1>1. \A u \in Tasks \ {t} : AllocPhase(u)' = AllocPhase(u)
  BY DEF AllocPhase
<1>2. \A u \in Tasks \ {t} : InCall(u)' = InCall(u)
  BY <1>1 DEF InCall
<1> QED
  BY <1>1, <1>2 DEF AllocPhases, AllocHands

\* A step that does not move the call, as the allocator sees it.
LEMMA AllocStutters ==
  ASSUME NEW t \in Tasks,
         \A u \in Tasks \ {t} : stage'[u] = stage[u] /\ item'[u] = item[u],
         AllocPhase(t)' = AllocPhase(t), InCall(t)' = InCall(t)
  PROVE  AllocPhases' = AllocPhases /\ AllocHands' = AllocHands
<1>1. /\ AllocPhases' = [AllocPhases EXCEPT ![t] = AllocPhase(t)]
      /\ AllocHands' = [AllocHands EXCEPT ![t] = InCall(t)]
  BY AllocMoves
<1> QED
  BY <1>1 DEF AllocPhases, AllocHands

LEMMA AllocSteps ==
  ASSUME NEW t \in Tasks
  PROVE  /\ Allocator!Ask(t) => Allocator!Next
         /\ Allocator!Grant(t) \/ Allocator!Refuse(t) \/ Allocator!Take(t) => Allocator!Next
         /\ (\E u \in Tasks, b \in Blocks : Allocator!GiveBack(t, u, b)) => Allocator!Next
         /\ Allocator!Put(t) \/ Allocator!Return(t) => Allocator!Next
BY DEF Allocator!Next

\* A call begins, or goes on to a mutex or semaphore call.
LEMMA AllocCallStep ==
  ASSUME PoolInv, NEW t \in Tasks, PoolCallStep(t)
  PROVE  Allocator!Next \/ AllocUnchanged
<1>1. /\ stage' = [stage EXCEPT ![t] = stage'[t]]
      /\ \/ stage[t] = "none" /\ stage'[t] \in {"ma_test", "da_link"}
         \/ stage[t] \in {"ma_test", "ma_lock"} /\ stage'[t] \in {"ma_lock", "ma_data"}
         \/ stage[t] = "ma_unlock" /\ stage'[t] = "ma_take"
         \/ stage[t] = "da_unlock" /\ stage'[t] = "da_give"
         \/ stage[t] = "ma_take" /\ stage'[t] = "ma_end"
         \/ stage[t] = "da_give" /\ stage'[t] = "da_end"
  BY PoolCallMoves DEF PoolInv, PoolControl
<1>2. \A u \in Tasks \ {t} : stage'[u] = stage[u]
  BY <1>1 DEF PoolInv, PoolDataTyped
<1>3. FreeBlocks' = FreeBlocks
  BY CallStepData
<1>4. CASE t \in Allocators /\ OS_Malloc(t)
  <2>1. stage[t] = "none" /\ stage'[t] = "ma_test" /\ item' = item /\ owned' = owned
    BY <1>4 DEF OS_Malloc, CallCounting, AtStage, ToStage, PoolInv, PoolDataTyped, poolData
  <2>2. /\ AllocPhase(t) = "idle" /\ AllocPhase(t)' = "asking"
        /\ InCall(t) = Nil /\ InCall(t)' = Nil
    BY <2>1 DEF AllocPhase, InCall
  <2>3. /\ AllocPhases' = [AllocPhases EXCEPT ![t] = "asking"]
        /\ AllocHands' = [AllocHands EXCEPT ![t] = Nil]
    BY <1>2, <2>1, <2>2, AllocMoves
  <2>4. AllocPhases[t] = "idle" /\ AllocHands' = AllocHands
    BY <2>2, <2>3 DEF AllocPhases, AllocHands
  <2>5. Allocator!Ask(t)
    BY <1>3, <1>4, <2>1, <2>3, <2>4
    DEF Allocator!Ask, Allocator!Moves, AllocPhases, AllocHands, InCall
  <2> QED
    BY <2>5, AllocSteps
<1>5. ASSUME NEW b \in Blocks, OS_Dalloc(t, b) PROVE Allocator!Next
  <2>1. PICK u \in Tasks : b \in owned[u] \cap Blocks /\ owned' = [owned EXCEPT ![u] = @ \ {b}]
    BY <1>5 DEF OS_Dalloc
  <2>2. /\ item' = [item EXCEPT ![t] = b] /\ item'[t] = b
        /\ stage[t] = "none" /\ stage'[t] = "da_link"
    BY <1>5 DEF OS_Dalloc, AtStage, Enter, ToStage, PoolInv, PoolDataTyped
  <2>3. AllocPhase(t) = "idle" /\ AllocPhase(t)' = "returning" /\ InCall(t)' = b
    BY <2>2 DEF AllocPhase, InCall
  <2>4. \A v \in Tasks \ {t} : item'[v] = item[v]
    BY <2>2 DEF PoolInv, PoolDataTyped
  <2>5. /\ AllocPhases' = [AllocPhases EXCEPT ![t] = "returning"]
        /\ AllocHands' = [AllocHands EXCEPT ![t] = b]
        /\ AllocPhases[t] = "idle"
    BY <1>2, <2>3, <2>4, AllocMoves DEF AllocPhases
  <2>6. Allocator!GiveBack(t, u, b)
    BY <1>3, <2>1, <2>5
    DEF Allocator!GiveBack, Allocator!Moves, AllocPhases, AllocHands, InCall
  <2> QED
    BY <2>6, AllocSteps
<1>6. CASE MaTest(t) \/ MaLock(t) \/ MaUnlock(t) \/ MaTake(t) \/ DaUnlock(t) \/ DaGive(t)
  <2>1. item' = item /\ owned' = owned
    BY <1>6 DEF MaTest, MaLock, MaUnlock, MaTake, DaUnlock, DaGive, poolData
  <2>2. stage[t] # "none"
    BY <1>6 DEF MaTest, MaLock, MaUnlock, MaTake, DaUnlock, DaGive, WaitOrLock,
      CallMutexAquire, CallMutexRelease, CallSemaphoreAquire, CallSemaphoreRelease, AtStage
  <2>3. AllocPhase(t)' = AllocPhase(t)
    BY <1>1, <2>2 DEF AllocPhase
  <2>4. InCall(t)' = InCall(t)
    BY <2>1, <2>3 DEF InCall
  <2> QED
    BY <1>2, <1>3, <2>1, <2>3, <2>4, AllocStutters DEF AllocUnchanged
<1> QED
  BY <1>4, <1>5, <1>6 DEF PoolCallStep

\* The head moves on: the allocation has taken effect.
LEMMA AllocNextStep ==
  ASSUME PoolInv, NEW t \in Tasks, MaNext(t)
  PROVE  Allocator!Next
<1>1. /\ stage[t] = "ma_next" /\ stage' = [stage EXCEPT ![t] = "ma_unlock"]
      /\ item' = item /\ owned' = owned
      /\ stage'[t] = "ma_unlock"
  BY DEF MaNext, OwnStep, AtStage, ToStage, PoolInv, PoolDataTyped
<1>2. \A u \in Tasks \ {t} : stage'[u] = stage[u] /\ item'[u] = item[u]
  BY <1>1 DEF PoolInv, PoolDataTyped
<1>3. AllocPhase(t) = "asking" /\ AllocPhase(t)' = "granted" /\ InCall(t)' = item[t]
  BY <1>1 DEF AllocPhase, InCall
<1>4. /\ AllocPhases' = [AllocPhases EXCEPT ![t] = "granted"]
      /\ AllocHands' = [AllocHands EXCEPT ![t] = item[t]]
      /\ AllocPhases[t] = "asking"
  BY <1>2, <1>3, AllocMoves DEF AllocPhases
<1>5. CASE head \in Blocks
  <2>1. item[t] \in FreeBlocks /\ FreeBlocks' = FreeBlocks \ {item[t]}
    BY <1>5, NextStepData DEF DataOf
  <2>2. Allocator!Grant(t)
    BY <1>1, <1>4, <2>1
    DEF Allocator!Grant, Allocator!Moves, AllocPhases, AllocHands, InCall
  <2> QED
    BY <2>2, AllocSteps
<1>6. CASE head \notin Blocks
  <2>1. item[t] = VectorWord /\ FreeBlocks = {} /\ FreeBlocks' = FreeBlocks
    BY <1>6, NextStepData DEF DataOf
  <2>2. Allocator!Refuse(t)
    BY <1>1, <1>4, <2>1
    DEF Allocator!Refuse, Allocator!Moves, AllocPhases, AllocHands, InCall
  <2> QED
    BY <2>2, AllocSteps
<1> QED
  BY <1>5, <1>6

\* The block is the caller's.
LEMMA AllocTakeStep ==
  ASSUME PoolInv, NEW t \in Tasks, MaReturn(t)
  PROVE  Allocator!Next
<1>1. /\ stage[t] = "ma_end" /\ stage' = [stage EXCEPT ![t] = "none"]
      /\ item' = [item EXCEPT ![t] = Nil]
      /\ owned' = [owned EXCEPT ![t] = @ \cup {item[t]}]
      /\ stage'[t] = "none"
  BY DEF MaReturn, OwnStep, AtStage, ToStage, PoolInv, PoolDataTyped
<1>2. \A u \in Tasks \ {t} : stage'[u] = stage[u] /\ item'[u] = item[u]
  BY <1>1 DEF PoolInv, PoolDataTyped
<1>3. /\ AllocPhase(t) = "granted" /\ AllocPhase(t)' = "idle"
      /\ InCall(t) = item[t] /\ InCall(t)' = Nil
  BY <1>1 DEF AllocPhase, InCall
<1>4. /\ AllocPhases' = [AllocPhases EXCEPT ![t] = "idle"]
      /\ AllocHands' = [AllocHands EXCEPT ![t] = Nil]
      /\ AllocPhases[t] = "granted" /\ AllocHands[t] = item[t]
  BY <1>2, <1>3, AllocMoves DEF AllocPhases, AllocHands
<1>5. FreeBlocks' = FreeBlocks
  BY ReturnStepData
<1>6. Allocator!Take(t)
  BY <1>1, <1>4, <1>5
  DEF Allocator!Take, Allocator!Moves, AllocPhases, AllocHands, InCall
<1> QED
  BY <1>6, AllocSteps

\* The block is the head: it is free.
LEMMA AllocPutStep ==
  ASSUME PoolInv, NEW t \in Tasks, DaPush(t)
  PROVE  Allocator!Next
<1>1. /\ stage[t] = "da_push" /\ stage' = [stage EXCEPT ![t] = "da_unlock"]
      /\ item' = item /\ owned' = owned
      /\ stage'[t] = "da_unlock"
  BY DEF DaPush, OwnStep, AtStage, ToStage, PoolInv, PoolDataTyped
<1>2. \A u \in Tasks \ {t} : stage'[u] = stage[u] /\ item'[u] = item[u]
  BY <1>1 DEF PoolInv, PoolDataTyped
<1>3. /\ AllocPhase(t) = "returning" /\ AllocPhase(t)' = "returned"
      /\ InCall(t) = item[t] /\ InCall(t)' = Nil
  BY <1>1 DEF AllocPhase, InCall
<1>4. /\ AllocPhases' = [AllocPhases EXCEPT ![t] = "returned"]
      /\ AllocHands' = [AllocHands EXCEPT ![t] = Nil]
      /\ AllocPhases[t] = "returning" /\ AllocHands[t] = item[t]
  BY <1>2, <1>3, AllocMoves DEF AllocPhases, AllocHands
<1>5. FreeBlocks' = FreeBlocks \cup {item[t]}
  BY PushStepData
<1>6. Allocator!Put(t)
  BY <1>1, <1>4, <1>5
  DEF Allocator!Put, Allocator!Moves, AllocPhases, AllocHands, InCall
<1> QED
  BY <1>6, AllocSteps

\* OS_Dalloc returns.
LEMMA AllocReturnStep ==
  ASSUME PoolInv, NEW t \in Tasks, DaReturn(t)
  PROVE  Allocator!Next
<1>1. /\ stage[t] = "da_end" /\ stage' = [stage EXCEPT ![t] = "none"]
      /\ item' = [item EXCEPT ![t] = Nil] /\ owned' = owned
      /\ stage'[t] = "none"
  BY DEF DaReturn, OwnStep, AtStage, ToStage, PoolInv, PoolDataTyped
<1>2. \A u \in Tasks \ {t} : stage'[u] = stage[u] /\ item'[u] = item[u]
  BY <1>1 DEF PoolInv, PoolDataTyped
<1>3. /\ AllocPhase(t) = "returned" /\ AllocPhase(t)' = "idle"
      /\ InCall(t) = Nil /\ InCall(t)' = Nil
  BY <1>1 DEF AllocPhase, InCall
<1>4. /\ AllocPhases' = [AllocPhases EXCEPT ![t] = "idle"]
      /\ AllocHands' = [AllocHands EXCEPT ![t] = Nil]
  BY <1>2, <1>3, AllocMoves
<1>5. AllocPhases[t] = "returned" /\ AllocHands' = AllocHands
  BY <1>3, <1>4 DEF AllocPhases, AllocHands
<1>6. FreeBlocks' = FreeBlocks
  BY EndStepData
<1>7. Allocator!Return(t)
  BY <1>1, <1>4, <1>5, <1>6
  DEF Allocator!Return, Allocator!Moves, AllocPhases, AllocHands, InCall
<1> QED
  BY <1>7, AllocSteps

\* The head is read, or the block linked to it: nothing the allocator could see.
LEMMA AllocLinkStep ==
  ASSUME PoolInv, NEW t \in Tasks, MaData(t) \/ DaLink(t)
  PROVE  AllocUnchanged
<1>1. /\ stage' = [stage EXCEPT ![t] = stage'[t]] /\ owned' = owned
      /\ \A u \in Tasks \ {t} : item'[u] = item[u]
      /\ \/ stage[t] = "ma_data" /\ stage'[t] = "ma_next"
         \/ stage[t] = "da_link" /\ stage'[t] = "da_push" /\ item' = item
  BY DEF MaData, DaLink, OwnStep, AtStage, ToStage, PoolInv, PoolDataTyped
<1>2. \A u \in Tasks \ {t} : stage'[u] = stage[u] /\ item'[u] = item[u]
  BY <1>1 DEF PoolInv, PoolDataTyped
<1>3. AllocPhase(t)' = AllocPhase(t) /\ InCall(t)' = InCall(t)
  BY <1>1 DEF AllocPhase, InCall
<1>4. FreeBlocks' = FreeBlocks
  BY DataStepData, LinkStepData
<1> QED
  BY <1>1, <1>2, <1>3, <1>4, AllocStutters DEF AllocUnchanged

\* Every execution of the pool is one of AllocatorSpec: OS_Malloc and OS_Dalloc, whose
\* reads and writes of the list any handler and any other call may fall between, each
\* take effect at once, and an allocation goes wrong, through the null head, only when
\* the list is empty at that moment.
THEOREM PoolImplementsAllocator == PoolSpec => AllocatorSpecHolds
<1>1. PoolInit => Allocator!Init
  <2> SUFFICES ASSUME PoolInit PROVE Allocator!Init
    OBVIOUS
  <2>1. FreeBlocks = Blocks
    BY PoolInitList DEF PoolInit
  <2>2. \A t \in Tasks : stage[t] = "none"
    BY DEF PoolInit, SyncInit
  <2>3. \A t \in Tasks : AllocPhase(t) = "idle"
    BY <2>2 DEF AllocPhase
  <2>4. owned = [t \in Tasks |-> {}]
    BY DEF PoolInit, OS_InitMempool
  <2> QED
    BY <2>1, <2>3, <2>4 DEF Allocator!Init
<1>2. PoolInv /\ [PoolNext]_poolVars => [Allocator!Next]_(Allocator!allocVars)
  <2> SUFFICES ASSUME PoolInv, [PoolNext]_poolVars
               PROVE  Allocator!Next \/ AllocUnchanged
    BY DEF AllocUnchanged, Allocator!allocVars, AllocPhases, AllocHands, InCall
  <2>1. CASE stage' = stage /\ UNCHANGED poolData
    <3>1. owned' = owned /\ item' = item /\ FreeBlocks' = FreeBlocks
      BY <2>1, ListStays DEF PoolInv, PoolData, poolData
    <3>2. AllocPhases' = AllocPhases /\ AllocHands' = AllocHands
      BY <2>1, <3>1 DEF AllocPhases, AllocHands, AllocPhase, InCall
    <3> QED
      BY <3>1, <3>2 DEF AllocUnchanged
  <2>2. ASSUME NEW t \in Tasks, PoolStep(t) PROVE Allocator!Next \/ AllocUnchanged
    <3>1. CASE PoolCallStep(t)
      BY <3>1, AllocCallStep
    <3>2. CASE PoolOwnStep(t)
      BY <3>2, AllocNextStep, AllocTakeStep, AllocPutStep, AllocReturnStep, AllocLinkStep
      DEF PoolOwnStep
    <3> QED
      BY <2>2, <3>1, <3>2, PoolSteps
  <2> QED
    BY <2>1, <2>2 DEF PoolNext, PoolThread, InnerStep, OuterStep, poolVars
<1> QED
  BY <1>1, <1>2, PoolInvariant, PTL
  DEF PoolSpec, AllocatorSpecHolds, Allocator!Spec

-----------------------------------------------------------------------------
\* The mutex and the semaphore of the pool, and all others, as its calls use them.

\* The pool releases only the mutex it holds.
LEMMA PoolSyncStep ==
  ASSUME PoolInv, [PoolNext]_poolVars PROVE SyncStep({}) /\ ReleasesHeld
<1> USE DEF PoolInv, PoolControl
<1>1. ASSUME \/ Handlers /\ UNCHANGED <<syncVars, stage>>
             \/ \E t \in Tasks : InnerStep(t) \/ OuterStep(t)
             \/ UNCHANGED <<vars, syncVars>>
      PROVE  SyncStep({}) /\ ReleasesHeld
  BY <1>1, OthersBegin DEF SyncStep
<1>2. ASSUME NEW t \in Tasks, PoolCallStep(t) PROVE SyncStep({}) /\ ReleasesHeld
  <2>1. /\ Entries(t)
        /\ \/ pc'[t] \in {"gc_ldrex", "wait_svc", "aq_ldrex", "sa_ldrex", "sr_ldrex"}
           \/ /\ stage[t] \in {"ma_unlock", "da_unlock"}
              /\ arg'[t] = PoolMux
    BY <1>2, PoolCallMoves
  <2>2. stage[t] \in {"ma_unlock", "da_unlock"} => PoolMux \in held[t]
    BY DEF InsideHolds, Inside
  <2>3. \A u \in Tasks \ {t} : pc'[u] = pc[u]
    BY <2>1, EntriesMove
  <2> QED
    BY <2>1, <2>2, <2>3 DEF SyncStep, ReleasesHeld
<1>3. ASSUME NEW t \in Tasks, PoolOwnStep(t) PROVE UNCHANGED <<vars, syncVars>>
  BY <1>3, PoolOwnMoves
<1> QED
  BY <1>1, <1>2, <1>3, PoolSteps DEF PoolNext, PoolThread, poolVars

\* A task holds nothing but the pool's mutex, and that only between its acquire and its
\* release.
HeldInside == \A t \in Tasks : held[t] \subseteq IF Inside(t) THEN {PoolMux} ELSE {}

LEMMA PoolHeldInside ==
  ASSUME PoolInv, HeldInside, [PoolNext]_poolVars PROVE HeldInside'
<1> USE DEF PoolInv, PoolControl
<1>1. CASE UNCHANGED poolVars
  BY <1>1
  DEF poolVars, vars, taskVars, syncVars, mutexVars, HeldInside, Inside
<1>2. CASE \/ Handlers /\ UNCHANGED <<syncVars, stage>>
           \/ \E t \in Tasks : OuterStep(t)
  <2>1. /\ stage' = stage /\ held' = held
        /\ \A u \in Tasks : stage[u] # "none" => pc'[u] = pc[u]
    BY <1>2, OtherStepCalls DEF syncVars, mutexVars
  <2>2. \A u \in Tasks : Inside(u)' <=> Inside(u)
    BY <2>1 DEF Inside
  <2> QED
    BY <2>1, <2>2 DEF HeldInside
<1>3. ASSUME NEW t \in Tasks, InnerStep(t) PROVE HeldInside'
  <2>1. stage' = stage /\ pc[t] # "user"
    BY <1>3, InnerStepStays
    DEF InnerStep, CallLabels, AcquireLabels, ReleaseLabels, SemLabels, SemAcquireLabels
  <2>2. \A u \in Tasks \ {t} : pc'[u] = pc[u] /\ held'[u] = held[u]
    BY <1>3, InnerStepOthers
  <2>3. Inside(t) => Inside(t)'
    BY <2>1 DEF Inside
  <2>4. \/ held'[t] = held[t]
        \/ /\ pc[t] \in AcquireLabels /\ pc'[t] = "user"
           /\ held'[t] = held[t] \cup {arg[t]}
    BY <1>3, InnerStepGets
  <2>5. pc[t] \in AcquireLabels /\ pc'[t] = "user" => arg[t] = PoolMux /\ Inside(t)'
    BY <2>1 DEF Inside, PoolCalls
  <2> QED
    BY <2>1, <2>2, <2>3, <2>4, <2>5 DEF HeldInside, Inside
<1>4. ASSUME NEW t \in Tasks, PoolCallStep(t) PROVE HeldInside'
  <2>1. Entries(t)
    BY <1>4, PoolCallMoves
  <2>2. /\ pc[t] = "user" /\ held'[t] \subseteq held[t]
        /\ \A u \in Tasks \ {t} : pc'[u] = pc[u] /\ held'[u] = held[u]
    BY <2>1, EntriesMove
  <2>3. \A u \in Tasks \ {t} : stage'[u] = stage[u]
    BY <1>4, PoolCallMoves DEF PoolDataTyped
  <2>4. CASE pc'[t] = "rl_check"
    <3>1. arg'[t] = PoolMux
      BY <1>4, <2>4, PoolCallMoves
    <3>2. PICK m \in Mutexes : ReleaseCall(t, m)
      BY <2>1, <2>4
      DEF Entries, Entering, GetCountCall, SemCall, Calling, Goto, SyncKept, SyncShape,
          MutexShape, PcDomain, KernelTyped, KernelTypeOK
    <3>3. arg'[t] = m /\ held'[t] = held[t] \ {m}
      BY <3>2 DEF ReleaseCall, SyncKept, SyncShape, MutexShape, MuxTyped, KernelTyped,
                  KernelTypeOK
    <3> QED
      BY <2>2, <2>3, <3>1, <3>3 DEF HeldInside, Inside
  <2>5. CASE pc'[t] # "rl_check"
    <3>1. ~Inside(t)
      BY <1>4, <2>5, PoolCallMoves DEF Inside
    <3> QED
      BY <2>2, <2>3, <3>1 DEF HeldInside, Inside
  <2> QED
    BY <2>4, <2>5
<1>5. ASSUME NEW t \in Tasks, PoolOwnStep(t) PROVE HeldInside'
  <2>1. \A u \in Tasks \ {t} : stage'[u] = stage[u]
    BY <1>5, PoolOwnMoves DEF PoolDataTyped
  <2>2. pc' = pc /\ held' = held /\ (Inside(t) => Inside(t)')
    BY <1>5, PoolOwnMoves DEF Inside
  <2> QED
    BY <2>1, <2>2 DEF HeldInside, Inside
<1> QED
  BY <1>1, <1>2, <1>3, <1>4, <1>5, PoolSteps DEF PoolNext, PoolThread

\* So it never acquires a mutex it holds.
LEMMA PoolAcquires ==
  ASSUME PoolInv, HeldInside, [PoolNext]_poolVars PROVE AcquiresNew
<1> USE DEF PoolInv, PoolControl
<1>1. ASSUME \/ Handlers /\ UNCHANGED <<syncVars, stage>>
             \/ \E t \in Tasks : InnerStep(t) \/ OuterStep(t)
             \/ UNCHANGED <<vars, syncVars>>
      PROVE  AcquiresNew
  BY <1>1, OthersBegin
<1>2. ASSUME NEW t \in Tasks, PoolCallStep(t) PROVE AcquiresNew
  <2>1. \A u \in Tasks \ {t} : pc'[u] = pc[u]
    BY <1>2, PoolCallMoves, EntriesMove
  <2>2. pc'[t] = "aq_ldrex" => ~Inside(t)
    BY <1>2, PoolCallMoves DEF Inside
  <2> QED
    BY <2>1, <2>2 DEF AcquiresNew, HeldInside, AcquireLabels
<1>3. ASSUME NEW t \in Tasks, PoolOwnStep(t) PROVE UNCHANGED <<vars, syncVars>>
  BY <1>3, PoolOwnMoves
<1> QED
  BY <1>1, <1>2, <1>3, PoolSteps DEF PoolNext, PoolThread, poolVars

\* So what SyncCalls keeps, the pool keeps.
LEMMA PoolSyncInvariant ==
  PoolSpec => [](PoolInv /\ WaitsApart /\ CountsOwner /\ HeldInside /\ OwnerBound)
<1>1. PoolInit => PoolInv /\ WaitsApart /\ CountsOwner /\ HeldInside /\ OwnerBound
  BY PoolInitInv, SyncInitPromises DEF PoolInit, SyncInit, MutexInit, HeldInside
<1>2. /\ PoolInv /\ WaitsApart /\ CountsOwner /\ HeldInside /\ OwnerBound
      /\ [PoolNext]_poolVars
      => (PoolInv /\ WaitsApart /\ CountsOwner /\ HeldInside /\ OwnerBound)'
  <2> SUFFICES ASSUME PoolInv, WaitsApart, CountsOwner, HeldInside, OwnerBound,
                      [PoolNext]_poolVars
               PROVE  (PoolInv /\ WaitsApart /\ CountsOwner /\ HeldInside /\ OwnerBound)'
    OBVIOUS
  <2>1. SyncKept /\ SyncStep({}) /\ ReleasesHeld /\ AcquiresNew
    BY PoolSyncStep, PoolAcquires DEF PoolInv, PoolControl
  <2>2. PoolInv' /\ HeldInside'
    BY PoolNextInv, PoolHeldInside
  <2>3. WaitsApart' /\ CountsOwner' /\ OwnerBound'
    BY <2>1, SyncStepWaits, SyncStepCounts, SyncStepBound
  <2> QED
    BY <2>2, <2>3
<1> QED
  BY <1>1, <1>2, PTL DEF PoolSpec

\* Who got the pool's mutex, or any other, is its owner and is counted once, also when
\* tasks are preempted between the unprotected reads and writes of the count.
THEOREM PoolHeldOwned == PoolSpec => []HeldIsOwned
<1>1. PoolInv /\ CountsOwner => HeldIsOwned
  BY OwnedCountedHeld DEF PoolInv, PoolControl
<1> QED
  BY <1>1, PoolSyncInvariant, PTL

\* Every task stays in one queue, and waits only for who will notify it.
LEMMA PoolWakeupsInvariant ==
  ASSUME Closed PROVE PoolSpec => [](PoolInv /\ WaitsApart /\ Placed /\ Wakeups)
<1>1. PoolInit => Placed /\ Wakeups
  BY SyncInitPromises DEF PoolInit
<1>2. PoolInv /\ WaitsApart /\ Placed /\ Wakeups /\ [PoolNext]_poolVars
        => (Placed /\ Wakeups)'
  BY PoolSyncStep, SyncStepPlaced, SyncStepWakeups DEF PoolInv, PoolControl
<1> QED
  BY <1>1, <1>2, PoolSyncInvariant, PTL DEF PoolSpec

\* While a task waits for the pool's mutex, another one that does not holds it, takes it
\* or is inside the release that notifies: OS_Malloc and OS_Dalloc release only what they
\* hold and acquire only what they do not, and their calls of the semaphore and the wait
\* of OS_Malloc lose no wakeup of a mutex.
THEOREM PoolMutexWakeups == ASSUME Closed PROVE PoolSpec => []NoLostWakeup
<1>1. PoolInv /\ Wakeups /\ OwnerBound => NoLostWakeup
  BY WakeupBound DEF PoolInv, PoolControl, SyncKept, SyncShape
<1> QED
  BY <1>1, PoolWakeupsInvariant, PoolSyncInvariant, PTL

\* Through the calls of the pool, whose OS_Wait and OS_Notify move their callers between
\* the queues of the kernel, no task is dropped from them or entered twice, until a SysTick
\* falls inside one of the heap operations of OS_Sleep.
THEOREM PoolTasksKept == ASSUME Closed PROVE PoolSpec => []ExactlyOneQueue
BY PoolWakeupsInvariant, PlacedOnce, PTL

\* And until then no ready task outranks the one that runs, unless a change of task is
\* pending.
THEOREM PoolHighestRuns == ASSUME Closed, HeapOrdered PROVE PoolSpec => []HighestRuns
<1>1. PoolInit => RunningSorted
  BY SyncInitPromises DEF PoolInit
<1>2. PoolInv /\ Placed /\ RunningSorted /\ [PoolNext]_poolVars => RunningSorted'
  BY PoolSyncStep, SyncStepSorted DEF PoolInv, PoolControl
<1> QED
  BY <1>1, <1>2, PoolWakeupsInvariant, SortedRuns, PTL DEF PoolSpec

\* Under the pool the mutexes are still locks: ownership passes only through "free",
\* only to a task that asked, and only the owner gives it up.
THEOREM PoolMutexesAreLocks == PoolSpec => LockSpecHolds
<1>1. PoolInit => Lock!Init
  BY SyncInitPromises DEF PoolInit
<1>2. PoolInv /\ [PoolNext]_poolVars => [Lock!Next]_<<Owner, Asking>>
  BY PoolSyncStep, SyncStepLock DEF PoolInv, PoolControl
<1> QED
  BY <1>1, <1>2, PoolInvariant, PTL
  DEF PoolSpec, LockSpecHolds, Lock!Spec, Owner, Asking

\* And the semaphores still count: one resource for every acquire, and back for every
\* release that a semaphore with room sees.
THEOREM PoolSemaphoresCount ==
  ASSUME SizesBelowWrap PROVE PoolSpec => SemaphoreSpecHolds
<1>1. PoolInit => Counting!Init
  BY SyncInitPromises DEF PoolInit
<1>2. PoolInv /\ [PoolNext]_poolVars => [Counting!Next]_<<counter, SemAsking, SemGiving>>
  BY PoolSyncStep, SyncStepCounting DEF PoolInv, PoolControl
<1> QED
  BY <1>1, <1>2, PoolInvariant, PTL
  DEF PoolSpec, SemaphoreSpecHolds, Counting!Spec, SemAsking, SemGiving

=============================================================================
